---- MODULE Spec2Model ----
(***************************************************************************)
(* A model of the Aeron plugins of the telegraf fork.                      *)
(*                                                                         *)
(* Part 1: the AeronPublisher output (Connect, Write, publishMessage,      *)
(* offerMessage, Close).  Durations are int64 nanoseconds as in Go's       *)
(* time.Duration.  The float64 RetryBackoffMultiplier is kept in halves    *)
(* (a field value of 1 stands for 0.5): every value used is exactly        *)
(* representable in a float64, and so is its product with the small        *)
(* durations of the model, so float64(delay) * multiplier followed by the  *)
(* conversion to time.Duration is the truncation toward zero of            *)
(* delay * halves / 2.                                                     *)
(***************************************************************************)
EXTENDS Integers, Sequences, FiniteSets, TLC

\* ------------------------------------------------------------------ bounds
\* API calls (Connect, Write, Close) issued on one publisher.
MaxCalls == 2
\* Metrics in the batch of one Write call.
MaxBatch == 2
\* Offer calls the transport answers in one run.
MaxOffers == 4
\* API calls per behaviour when calls overlap.
MaxConcCalls == 3
\* Metrics in the batch of one Write call when calls overlap.
MaxConcBatch == 1
\* Start calls on one subscriber.
MaxStarts == 2
\* Start calls on one subscriber in the runs that follow its poll loop to the end.
MaxLoopStarts == 1
\* Stop calls on one subscriber.
MaxStops == 2
\* Messages the subscription hands to the fragment handler in one run.
MaxMessages == 2

\* ------------------------------------------------------- program constants
\* Connect's defaults for fields left at zero.
DefaultMaxRetries == 3
DefaultRetryDelay == 1000000
DefaultMaxRetryDelay == 100000000
\* RetryBackoffMultiplier 2.0, in halves.
DefaultRetryBackoffMultiplier == 2 * 2

\* aeron-go's result codes of Publication.Offer, as the switch names them.
NotConnected == -1
BackPressured == -2
AdminAction == -3
PublicationClosed == -4
\* The fragment limit Init sets when none is configured.
DefaultFragmentLimit == 10

\* What Offer may return: the four named codes, a code the switch does not
\* name (0) and a new stream position (1).
OfferResults == {PublicationClosed, AdminAction, BackPressured, NotConnected, 0, 1}

\* The goroutines that may call Write.
Writers == {1, 2}
\* The goroutine that calls Write when calls are issued one after another.
SeqWriters == {1}

VARIABLES
    cfg,            \* the toml fields: Channel, StreamID, MaxMessageSize, MaxRetries,
                    \* RetryDelay, RetryBackoffMultiplier, MaxRetryDelay
    serializer,     \* a.serializer # nil
    connected,      \* a.connected
    aeronContext,   \* a.aeronContext # nil
    aeronInstance,  \* a.aeronInstance: 0 is nil, n the client made by the n-th Connect
    publication,    \* a.publication: 0 is nil, n the publication added by the n-th Connect
    mutex,          \* a.mutex: [readers: the goroutines holding RLock, writer: Lock held]
    stats,          \* the six selfstat counters
    nConnects,      \* Connect calls that went past validation (names the transport objects)
    closedPub,      \* publications on which Close() was called
    closedInst,     \* clients on which Close() was called
    calls,          \* API calls issued so far
    offered,        \* Offer calls the transport has answered so far
    lost,           \* publications on which an Offer has returned PublicationClosed or
                    \* NotConnected
    connectErr,     \* what the last Connect returned
    pc,             \* per goroutine: where its Write call stands
    batch,          \* per goroutine: how many metrics of its Write call are still to be handled
    data,           \* per goroutine: len(data) of the payload in hand
    attempt,        \* per goroutine: publishMessage's attempt
    delay,          \* per goroutine: publishMessage's delay
    lastErr,        \* per goroutine: publishMessage's lastErr
    pubErr,         \* per goroutine: what the last publishMessage call returned
    ret,            \* per goroutine: what the last Write call returned
    offers,         \* per goroutine: the results Offer returned in the publishMessage call, counted
    lastResult,     \* per goroutine: the result of the last Offer of the call
    sleeps,         \* per goroutine: the durations passed to time.Sleep in the call, in order
    before,         \* per goroutine: the counters as they stood when the payload was taken up
    atCall,         \* per goroutine: the counters as they stood when Write was called
    lostAtCall,     \* per goroutine: lost as it stood when Write was called
    closer,         \* where the goroutine calling Close stands: "idle", or "lock" when it is
                    \* blocked in a.mutex.Lock()
    connector,      \* where the goroutine calling Connect stands: "idle", "wait" (in the
                    \* readiness loop) or "check" (before the nil check of a.publication)
    sub,            \* the AeronSubscriber, its consume goroutines, its transport and its
                    \* accumulator (the fields are listed at SubscriberNew)
    stat,           \* the AeronStat input, the CnC file it maps and the records of its
                    \* last Gather (the fields are listed at AeronStatNew)
    probe           \* one application of parseCounterType and getMeasurementName, or
                    \* one of parseCounterLabel: the arguments and the results

pubVars == <<cfg, serializer, connected, aeronContext, aeronInstance, publication, mutex,
             stats, nConnects, closedPub, closedInst, calls, offered, lost, connectErr>>
writeVars == <<pc, batch, data, attempt, delay, lastErr, pubErr, ret, offers, lastResult,
               sleeps, before, atCall, lostAtCall>>
concVars == <<closer, connector>>
statVars == <<stat, probe>>
vars == <<pubVars, writeVars, concVars, sub, statVars>>

\* ------------------------------------------------------------------ errors
\* An error value: its kind, the result code it prints (unknown result code: %d),
\* the retry count it prints (failed after %d retries) and the error it wraps.
Error(kind, code, cause) == [kind |-> kind, code |-> code, cause |-> cause]
NoCause == [kind |-> "nil", code |-> 0]
nil == Error("nil", 0, NoCause)
Cause(err) == [kind |-> err.kind, code |-> err.code]

\* -------------------------------------------------------------- the inputs
\* What Serialize makes of a metric: whether it succeeds, and len(data) if so.
Metrics == {[ok |-> TRUE, len |-> 2], [ok |-> TRUE, len |-> 3], [ok |-> FALSE, len |-> 0]}

Configs ==
    [Channel : {"", "aeron:ipc"},
     StreamID : {0, 10},
     MaxMessageSize : {0, 2},
     MaxRetries : {-1, 0, 1},
     RetryDelay : {0, 2},
     RetryBackoffMultiplier : {0, 1},
     MaxRetryDelay : {4}]

ZeroStats ==
    [messagesSent |-> 0, messagesDropped |-> 0, bytesTransferred |-> 0,
     backpressureErrors |-> 0, connectionErrors |-> 0, retryAttempts |-> 0]

\* The toml fields of the subscriber that its code reads.
SubConfigs ==
    [Channel : {"", "aeron:ipc"},
     StreamID : {-1, 0},
     FragmentLimit : {0, 1},
     IdleStrategy : {"", "bogus"}]

\* The consume goroutines, the contexts and the WaitGroups: the n-th Start that
\* gets past connect makes the n-th of each.
Goroutines == 1..MaxStarts

\* An AeronSubscriber as the framework makes it, with configuration c.
SubscriberNew(c) ==
    [cfg |-> c,
     initErr |-> "unset",            \* what Init returned
     aeron |-> 0,                    \* a.aeron: 0 is nil, n the n-th client
     subscription |-> 0,             \* a.subscription: 0 is nil, n the one of client n
     assembler |-> FALSE,            \* a.assembler # nil
     currentAccumulator |-> 0,       \* a.currentAccumulator: 0 is nil
     cancel |-> 0,                   \* a.cancel: 0 is nil, g the cancel of context g
     wg |-> 0,                       \* a.wg: 0 is nil, g the WaitGroup of the g-th Start
     startErr |-> "unset",           \* what the last Start returned
     starts |-> 0,                   \* Start calls so far
     stops |-> 0,                    \* Stop calls so far
     lastCall |-> "none",            \* the call that returned last
     nClients |-> 0,                 \* clients aeron.Connect has made
     closedClients |-> {},           \* clients on which Close() was called
     nLoops |-> 0,                   \* goroutines started so far
     ctxDone |-> {},                 \* the contexts that are cancelled
     wgCount |-> [g \in Goroutines |-> 0],       \* the counter of each WaitGroup
     loop |-> [g \in Goroutines |-> "none"],     \* where each goroutine stands
     myWg |-> [g \in Goroutines |-> 0],          \* the WaitGroup of its deferred Done
     fragmentsRead |-> [g \in Goroutines |-> 0], \* fragments of the Poll in progress
     idleArg |-> [g \in Goroutines |-> 0],       \* what Idle was called with in the
                                                 \* iteration that has just ended
     stopper |-> "idle",             \* "wait" while Stop is blocked in a.wg.Wait()
     handled |-> <<>>,               \* what Parse made of each message, in order
     sinkLog |-> <<>>,               \* the AddMetric calls on the accumulator, in order
     crashed |-> FALSE]              \* a goroutine has panicked

\* The subscriber that stands by while the publisher is exercised.
SubscriberUnused ==
    SubscriberNew([Channel |-> "", StreamID |-> 0, FragmentLimit |-> 0, IdleStrategy |-> ""])

\* An AeronPublisher as the framework makes it: any configuration, with or
\* without a serializer.
PublisherNew ==
    /\ cfg \in Configs
    /\ serializer \in BOOLEAN
    /\ connected = FALSE
    /\ aeronContext = FALSE
    /\ aeronInstance = 0
    /\ publication = 0
    /\ mutex = [readers |-> {}, writer |-> FALSE]
    /\ stats = ZeroStats
    /\ nConnects = 0
    /\ closedPub = {}
    /\ closedInst = {}
    /\ calls = 0
    /\ offered = 0
    /\ connectErr = nil
    /\ pc = [w \in Writers |-> "idle"]
    /\ batch = [w \in Writers |-> 0]
    /\ data = [w \in Writers |-> 0]
    /\ attempt = [w \in Writers |-> 0]
    /\ delay = [w \in Writers |-> 0]
    /\ lastErr = [w \in Writers |-> nil]
    /\ pubErr = [w \in Writers |-> nil]
    /\ ret = [w \in Writers |-> nil]
    /\ offers = [w \in Writers |-> 0]
    /\ lastResult = [w \in Writers |-> 0]
    /\ sleeps = [w \in Writers |-> <<>>]
    /\ before = [w \in Writers |-> ZeroStats]
    /\ atCall = [w \in Writers |-> ZeroStats]
    /\ lost = {}
    /\ lostAtCall = [w \in Writers |-> {}]
    /\ closer = "idle"
    /\ connector = "idle"

\* The AeronStat struct as the framework makes it (init() at 394-400) with the
\* toml table tags decoded into Tags.  reader, counterFile and cncFile are 0
\* for nil and otherwise the number of the MapFile call that made them.
AeronStatNew(c) ==
    [Tags |-> c.Tags, AeronDir |-> c.AeronDir, ReadTimeout |-> c.ReadTimeout,
     reader |-> 0, counterFile |-> 0, cncFile |-> 0,
     nMaps |-> 0,        \* calls of counters.MapFile so far
     mapped |-> {},      \* the MapFile calls that returned a mapping
     closedFiles |-> {}, \* the mappings on which Close() was called
     scanned |-> <<>>,   \* the counters the last Scan has passed to its callback
     emitted |-> <<>>,   \* the acc.AddFields calls of the last Gather, in order
     lastCall |-> "none", lastErr |-> "nil", calls |-> 0]

\* The collector that stands by while another plugin is exercised.
AeronStatUnused == AeronStatNew([Tags |-> <<>>, AeronDir |-> "", ReadTimeout |-> 0])

\* No application of the classification functions yet.
ProbeUnused ==
    [typeId |-> 0, counterType |-> "", applied |-> FALSE, kind |-> "", measurement |-> ""]

Init == PublisherNew /\ sub = SubscriberUnused /\ stat = AeronStatUnused /\ probe = ProbeUnused

\* A faulty variant of Incr: the amount is stored, not added.
IncrStores(s, field, n) == [s EXCEPT ![field] = n]

Incr(s, field, n) == [s EXCEPT ![field] = @ + n]

\* ----------------------------------------------------------------- Connect
\* The defaults Connect writes into the fields left at zero.
ConnectDefaults(c) ==
    [c EXCEPT
        !.MaxRetries = IF @ = 0 THEN DefaultMaxRetries ELSE @,
        !.RetryDelay = IF @ = 0 THEN DefaultRetryDelay ELSE @,
        !.RetryBackoffMultiplier = IF @ = 0 THEN DefaultRetryBackoffMultiplier ELSE @,
        !.MaxRetryDelay = IF @ = 0 THEN DefaultMaxRetryDelay ELSE @]

\* A faulty variant of ConnectValidate: the stream id is not checked.
ConnectValidateChannelOnly(c) ==
    IF c.Channel = "" THEN Error("channel_required", 0, NoCause)
    ELSE nil

\* Connect's validation of the configuration: the error it returns, or nil.
ConnectValidate(c) ==
    IF c.Channel = "" THEN Error("channel_required", 0, NoCause)
    ELSE IF c.StreamID = 0 THEN Error("stream_id_required", 0, NoCause)
    ELSE nil

\* selfstat.Register, called by Connect for each of the six counters: the
\* registry hands back the statistic already registered under the same
\* measurement, field and tags, with the value it has reached.
Register(s) == s

\* Connect, with what the transport answers: whether aeron.Connect succeeds,
\* whether AddExclusivePublication succeeds, and whether the new publication
\* reports IsConnected before PublicationTimeout has passed.
Connect(connectOk, addOk, ready) ==
    /\ calls' = calls + 1
    /\ cfg' = ConnectDefaults(cfg)
    /\ UNCHANGED <<serializer, mutex, closedPub, offered, lost, writeVars>>
    /\ IF ConnectValidate(cfg') # nil
       THEN /\ connectErr' = ConnectValidate(cfg')
            /\ UNCHANGED <<connected, aeronContext, aeronInstance, publication, stats,
                           nConnects, closedInst>>
       ELSE /\ nConnects' = nConnects + 1
            /\ aeronContext' = TRUE
            /\ IF ~connectOk
               THEN /\ stats' = Incr(Register(stats), "connectionErrors", 1)
                    /\ connectErr' = Error("connect_failed", 0, NoCause)
                    /\ UNCHANGED <<connected, aeronInstance, publication, closedInst>>
               ELSE /\ aeronInstance' = nConnects'
                    /\ IF ~addOk
                       THEN /\ stats' = Incr(Register(stats), "connectionErrors", 1)
                            /\ closedInst' = closedInst \cup {aeronInstance'}
                            /\ connectErr' = Error("add_publication_failed", 0, NoCause)
                            /\ UNCHANGED <<connected, publication>>
                       ELSE /\ publication' = IF ready THEN nConnects' ELSE publication
                            /\ IF publication' = 0
                               THEN /\ stats' = Incr(Register(stats), "connectionErrors", 1)
                                    /\ closedInst' = closedInst \cup {aeronInstance'}
                                    /\ connectErr' = Error("publication_not_ready", 0, NoCause)
                                    /\ UNCHANGED connected
                               ELSE /\ connected' = TRUE
                                    /\ connectErr' = nil
                                    /\ stats' = Register(stats)
                                    /\ UNCHANGED closedInst

\* Connect called while Write calls may be in progress. It takes no lock, so
\* its writes to the fields land one by one. First step: the defaults, the
\* validation, the counters, the context, aeron.Connect and
\* AddExclusivePublication, up to the entry of the readiness loop.
ConnectStart(connectOk, addOk) ==
    /\ connector = "idle"
    /\ calls' = calls + 1
    /\ cfg' = ConnectDefaults(cfg)
    /\ UNCHANGED <<serializer, connected, publication, mutex, closedPub, offered, lost,
                   writeVars, closer>>
    /\ IF ConnectValidate(cfg') # nil
       THEN /\ connectErr' = ConnectValidate(cfg')
            /\ UNCHANGED <<aeronContext, aeronInstance, stats, nConnects, closedInst,
                           connector>>
       ELSE /\ nConnects' = nConnects + 1
            /\ aeronContext' = TRUE
            /\ IF ~connectOk
               THEN /\ stats' = Incr(Register(stats), "connectionErrors", 1)
                    /\ connectErr' = Error("connect_failed", 0, NoCause)
                    /\ UNCHANGED <<aeronInstance, closedInst, connector>>
               ELSE /\ aeronInstance' = nConnects'
                    /\ IF ~addOk
                       THEN /\ stats' = Incr(Register(stats), "connectionErrors", 1)
                            /\ closedInst' = closedInst \cup {aeronInstance'}
                            /\ connectErr' = Error("add_publication_failed", 0, NoCause)
                            /\ UNCHANGED connector
                       ELSE /\ stats' = Register(stats)
                            /\ connector' = "wait"
                            /\ UNCHANGED <<closedInst, connectErr>>

\* The readiness loop ends: the publication this call added (the nConnects-th)
\* is stored in a.publication if it reported connected in time.
ConnectWait(ready) ==
    /\ connector = "wait"
    /\ publication' = IF ready THEN nConnects ELSE publication
    /\ connector' = "check"
    /\ UNCHANGED <<cfg, serializer, connected, aeronContext, aeronInstance, mutex, stats,
                   nConnects, closedPub, closedInst, calls, offered, lost, connectErr,
                   writeVars, closer>>

\* The nil check of a.publication, and either the error or a.connected = true.
ConnectFinish ==
    /\ connector = "check"
    /\ connector' = "idle"
    /\ IF publication = 0
       THEN /\ stats' = Incr(stats, "connectionErrors", 1)
            /\ closedInst' = closedInst \cup {aeronInstance}
            /\ connectErr' = Error("publication_not_ready", 0, NoCause)
            /\ UNCHANGED connected
       ELSE /\ connected' = TRUE
            /\ connectErr' = nil
            /\ UNCHANGED <<stats, closedInst>>
    /\ UNCHANGED <<cfg, serializer, aeronContext, aeronInstance, publication, mutex,
                   nConnects, closedPub, calls, offered, lost, writeVars, closer>>

\* ------------------------------------------------------------------- Close
\* A faulty variant of LockAcquired: Lock returns without waiting for the readers.
LockAcquiredAtOnce == TRUE

\* a.mutex.Lock() returns once no goroutine holds the read lock.
LockAcquired == mutex.readers = {}

\* Close leaving a.aeronInstance as it is.
TeardownKeepsClient ==
    IF ~connected
    THEN UNCHANGED <<connected, aeronContext, aeronInstance, publication, closedPub,
                     closedInst>>
    ELSE /\ connected' = FALSE
         /\ closedPub' = IF publication # 0 THEN closedPub \cup {publication} ELSE closedPub
         /\ publication' = 0
         /\ closedInst' = IF aeronInstance # 0 THEN closedInst \cup {aeronInstance}
                          ELSE closedInst
         /\ aeronContext' = FALSE
         /\ UNCHANGED aeronInstance

\* What Close returns, on either path.
CloseReturn == nil

\* What Close does once it holds the lock: nothing when not connected, and
\* otherwise the flag, the publication, the client and the context.
Teardown ==
    IF ~connected
    THEN UNCHANGED <<connected, aeronContext, aeronInstance, publication, closedPub,
                     closedInst>>
    ELSE /\ connected' = FALSE
         /\ closedPub' = IF publication # 0 THEN closedPub \cup {publication} ELSE closedPub
         /\ publication' = 0
         /\ closedInst' = IF aeronInstance # 0 THEN closedInst \cup {aeronInstance}
                          ELSE closedInst
         /\ aeronInstance' = 0
         /\ aeronContext' = FALSE

\* Close, called while no other call is in progress.
Close ==
    /\ calls' = calls + 1
    /\ LockAcquired /\ ~mutex.writer
    /\ UNCHANGED <<cfg, serializer, mutex, stats, nConnects, offered, lost, connectErr,
                   writeVars>>
    /\ Teardown

\* Close, called while Write calls may be in progress: Lock announces the
\* writer, which keeps new readers out, and blocks.
CloseLock ==
    /\ closer = "idle"
    /\ ~mutex.writer
    /\ calls' = calls + 1
    /\ mutex' = [mutex EXCEPT !.writer = TRUE]
    /\ closer' = "lock"
    /\ UNCHANGED <<cfg, serializer, connected, aeronContext, aeronInstance, publication,
                   stats, nConnects, closedPub, closedInst, offered, lost, connectErr,
                   writeVars, connector>>

\* The readers have left: Lock returns, Close runs and its deferred Unlock.
CloseLocked ==
    /\ closer = "lock"
    /\ LockAcquired
    /\ Teardown
    /\ mutex' = [mutex EXCEPT !.writer = FALSE]
    /\ closer' = "idle"
    /\ UNCHANGED <<cfg, serializer, stats, nConnects, calls, offered, lost, connectErr,
                   writeVars, connector>>

\* ------------------------------------------------------------------- Write
\* A faulty variant of WritePrecondition: the serializer is checked first.
WritePreconditionSerializerFirst ==
    IF ~serializer THEN Error("serializer_not_set", 0, NoCause)
    ELSE IF ~connected \/ publication = 0 THEN Error("not_connected", 0, NoCause)
    ELSE nil

\* Write's checks before the loop: the error it returns at once, or nil.
WritePrecondition ==
    IF ~connected \/ publication = 0 THEN Error("not_connected", 0, NoCause)
    ELSE IF ~serializer THEN Error("serializer_not_set", 0, NoCause)
    ELSE nil

\* A faulty variant of SizeExceeded: a payload of exactly the maximum is rejected too.
SizeExceededAtMaximum(n) == cfg.MaxMessageSize > 0 /\ n >= cfg.MaxMessageSize

\* The optional size validation of a serialized payload of n bytes.
SizeExceeded(n) == cfg.MaxMessageSize > 0 /\ n > cfg.MaxMessageSize

\* A faulty variant of WriteReturn: a dropped payload makes Write return an error.
WriteReturnReportsDrops(w) ==
    IF stats.messagesDropped > atCall[w].messagesDropped
    THEN Error("payloads_dropped", 0, NoCause)
    ELSE nil

\* What Write, called by goroutine w, returns once the range loop is over.
WriteReturn(w) == nil

\* A goroutine calls Write with n metrics: RLock, the two checks, and either the
\* return of the error (with the deferred RUnlock) or the entry of the loop.
WriteBegin(w, n) ==
    /\ pc[w] = "idle"
    /\ calls' = calls + 1
    /\ ~mutex.writer
    /\ atCall' = [atCall EXCEPT ![w] = stats]
    /\ lostAtCall' = [lostAtCall EXCEPT ![w] = lost]
    /\ IF WritePrecondition # nil
       THEN /\ ret' = [ret EXCEPT ![w] = WritePrecondition]
            /\ UNCHANGED <<mutex, pc, batch>>
       ELSE /\ mutex' = [mutex EXCEPT !.readers = @ \cup {w}]
            /\ pc' = [pc EXCEPT ![w] = "range"]
            /\ batch' = [batch EXCEPT ![w] = n]
            /\ UNCHANGED ret
    /\ UNCHANGED <<cfg, serializer, connected, aeronContext, aeronInstance, publication,
                   stats, nConnects, closedPub, closedInst, offered, lost, connectErr>>
    /\ UNCHANGED <<data, attempt, delay, lastErr, pubErr, offers, lastResult, sleeps, before>>

\* The range loop takes the next metric, which the serializer turns into m: the
\* metric is skipped (Serialize failed), dropped by the size validation, or
\* handed to publishMessage, which sets lastErr and delay.
WriteRange(w, m) ==
    /\ pc[w] = "range"
    /\ batch[w] > 0
    /\ batch' = [batch EXCEPT ![w] = @ - 1]
    /\ before' = [before EXCEPT ![w] = stats]
    /\ offers' = [offers EXCEPT ![w] = 0]
    /\ sleeps' = [sleeps EXCEPT ![w] = <<>>]
    /\ attempt' = [attempt EXCEPT ![w] = 0]
    /\ lastErr' = [lastErr EXCEPT ![w] = nil]
    /\ pubErr' = [pubErr EXCEPT ![w] = nil]
    /\ lastResult' = [lastResult EXCEPT ![w] = 0]
    /\ IF ~m.ok
       THEN /\ data' = [data EXCEPT ![w] = 0]
            /\ UNCHANGED <<stats, pc, delay>>
       ELSE /\ data' = [data EXCEPT ![w] = m.len]
            /\ IF SizeExceeded(m.len)
               THEN /\ stats' = Incr(stats, "messagesDropped", 1)
                    /\ UNCHANGED <<pc, delay>>
               ELSE /\ delay' = [delay EXCEPT ![w] = cfg.RetryDelay]
                    /\ pc' = [pc EXCEPT ![w] = "for"]
                    /\ UNCHANGED stats
    /\ UNCHANGED <<cfg, serializer, connected, aeronContext, aeronInstance, publication,
                   mutex, nConnects, closedPub, closedInst, calls, offered, lost, connectErr>>
    /\ UNCHANGED <<ret, atCall, lostAtCall>>

\* A faulty variant of RUnlock: the read lock is still held after the call.
RUnlockSkipped(w) == mutex

\* The deferred a.mutex.RUnlock() of Write.
RUnlock(w) == [mutex EXCEPT !.readers = @ \ {w}]

\* The range loop is over: Write returns, its deferred RUnlock runs and the
\* locals of the call are gone.
WriteEnd(w) ==
    /\ pc[w] = "range"
    /\ batch[w] = 0
    /\ ret' = [ret EXCEPT ![w] = WriteReturn(w)]
    /\ mutex' = RUnlock(w)
    /\ pc' = [pc EXCEPT ![w] = "idle"]
    /\ data' = [data EXCEPT ![w] = 0]
    /\ attempt' = [attempt EXCEPT ![w] = 0]
    /\ delay' = [delay EXCEPT ![w] = 0]
    /\ lastErr' = [lastErr EXCEPT ![w] = nil]
    /\ pubErr' = [pubErr EXCEPT ![w] = nil]
    /\ offers' = [offers EXCEPT ![w] = 0]
    /\ lastResult' = [lastResult EXCEPT ![w] = 0]
    /\ sleeps' = [sleeps EXCEPT ![w] = <<>>]
    /\ before' = [before EXCEPT ![w] = ZeroStats]
    /\ lostAtCall' = [lostAtCall EXCEPT ![w] = {}]
    /\ UNCHANGED <<cfg, serializer, connected, aeronContext, aeronInstance, publication,
                   stats, nConnects, closedPub, closedInst, calls, offered, lost, connectErr>>
    /\ UNCHANGED <<batch, atCall>>

\* ---------------------------------------------------------- publishMessage
\* A faulty variant of LoopCondition: one attempt short.
LoopConditionOneShort(a) == a < cfg.MaxRetries

\* The for loop's condition.
LoopCondition(a) == a <= cfg.MaxRetries

\* int64(x / 2) as Go converts a float64: toward zero.
TruncHalf(x) == IF x >= 0 THEN x \div 2 ELSE -((-x) \div 2)

\* The delay after a sleep of d: multiplied, then clamped.
NextDelay(d) ==
    LET scaled == TruncHalf(d * cfg.RetryBackoffMultiplier)
    IN  IF scaled > cfg.MaxRetryDelay THEN cfg.MaxRetryDelay ELSE scaled

\* The switch on Offer's result: the error it assigns to lastErr (nil on success).
OfferError(result) ==
    IF result = BackPressured THEN Error("backpressure", 0, NoCause)
    ELSE IF result = NotConnected THEN Error("publication_not_connected", 0, NoCause)
    ELSE IF result = AdminAction THEN Error("admin_action_required", 0, NoCause)
    ELSE IF result = PublicationClosed THEN Error("publication_closed", 0, NoCause)
    ELSE IF result > 0 THEN nil
    ELSE Error("unknown_result_code", result, NoCause)

\* A faulty variant of OfferReturns: publication-closed is retried like the others.
OfferReturnsRetriesClosed(result) == result > 0

\* A faulty variant of OfferReturns: a code the switch does not name ends the call.
OfferReturnsUnknownEnds(result) == result \notin {BackPressured, NotConnected, AdminAction}

\* The switch on Offer's result: whether the case returns (TRUE) or continues.
OfferReturns(result) ==
    IF result \in {BackPressured, NotConnected, AdminAction} THEN FALSE
    ELSE IF result = PublicationClosed THEN TRUE
    ELSE result > 0

\* The switch on Offer's result: the counter the case increments.
OfferStats(s, result) ==
    IF result = BackPressured THEN Incr(s, "backpressureErrors", 1)
    ELSE IF result \in {NotConnected, PublicationClosed} THEN Incr(s, "connectionErrors", 1)
    ELSE s

\* A faulty variant of RetryStats: the first attempt is counted as a retry too.
RetryStatsEveryAttempt(s, a) == Incr(s, "retryAttempts", 1)

\* The counter a retry increments before its sleep.
RetryStats(s, a) == IF a > 0 THEN Incr(s, "retryAttempts", 1) ELSE s

\* The error publishMessage returns when the loop ends.
ExhaustedError(last) == Error("failed_after_retries", cfg.MaxRetries, Cause(last))

\* One iteration of the for loop: for a retry the counter, the sleep and the new
\* delay; then the offer, which returns result, and the switch on it.
PublishAttempt(w, result) ==
    /\ pc[w] = "for"
    /\ LoopCondition(attempt[w])
    /\ offered < MaxOffers
    /\ offered' = offered + 1
    /\ lost' = IF result \in {PublicationClosed, NotConnected} THEN lost \cup {publication}
               ELSE lost
    /\ stats' = OfferStats(RetryStats(stats, attempt[w]), result)
    /\ sleeps' = [sleeps EXCEPT ![w] = IF attempt[w] > 0 THEN Append(@, delay[w]) ELSE @]
    /\ delay' = [delay EXCEPT ![w] = IF attempt[w] > 0 THEN NextDelay(@) ELSE @]
    /\ offers' = [offers EXCEPT ![w] = @ + 1]
    /\ lastResult' = [lastResult EXCEPT ![w] = result]
    /\ lastErr' = [lastErr EXCEPT ![w] = IF OfferError(result) = nil THEN @
                                         ELSE OfferError(result)]
    /\ IF OfferReturns(result)
       THEN /\ pubErr' = [pubErr EXCEPT ![w] = OfferError(result)]
            /\ pc' = [pc EXCEPT ![w] = "returned"]
            /\ UNCHANGED attempt
       ELSE /\ attempt' = [attempt EXCEPT ![w] = @ + 1]
            /\ UNCHANGED <<pubErr, pc>>
    /\ UNCHANGED <<cfg, serializer, connected, aeronContext, aeronInstance, publication,
                   mutex, nConnects, closedPub, closedInst, calls, connectErr>>
    /\ UNCHANGED <<batch, data, ret, before, atCall, lostAtCall>>

\* The loop's condition fails: publishMessage returns the wrapped lastErr.
PublishExhausted(w) ==
    /\ pc[w] = "for"
    /\ ~LoopCondition(attempt[w])
    /\ pubErr' = [pubErr EXCEPT ![w] = ExhaustedError(lastErr[w])]
    /\ pc' = [pc EXCEPT ![w] = "returned"]
    /\ UNCHANGED pubVars
    /\ UNCHANGED <<batch, data, attempt, delay, lastErr, ret, offers, lastResult, sleeps,
                   before, atCall, lostAtCall>>

\* A faulty variant of RecordStats: the bytes of a dropped payload are counted too.
RecordStatsBytesAlways(s, err, n) ==
    IF err # nil THEN Incr(Incr(s, "messagesDropped", 1), "bytesTransferred", n)
    ELSE Incr(Incr(s, "messagesSent", 1), "bytesTransferred", n)

\* What Write records for a payload once publishMessage has returned err.
RecordStats(s, err, n) ==
    IF err # nil THEN Incr(s, "messagesDropped", 1)
    ELSE Incr(Incr(s, "messagesSent", 1), "bytesTransferred", n)

\* Write, after publishMessage has returned: the counters, then the next metric.
WriteRecord(w) ==
    /\ pc[w] = "returned"
    /\ stats' = RecordStats(stats, pubErr[w], data[w])
    /\ pc' = [pc EXCEPT ![w] = "range"]
    /\ UNCHANGED <<cfg, serializer, connected, aeronContext, aeronInstance, publication,
                   mutex, nConnects, closedPub, closedInst, calls, offered, lost, connectErr>>
    /\ UNCHANGED <<batch, data, attempt, delay, lastErr, pubErr, ret, offers, lastResult,
                   sleeps, before, atCall, lostAtCall>>

\* ----------------------------------------------------------- specification
\* No Write call is in progress.
Quiescent == \A w \in Writers : pc[w] = "idle"

\* The calls on one publisher, issued one after another by its owner.
Next ==
    \/ \E connectOk \in BOOLEAN, addOk \in BOOLEAN, ready \in BOOLEAN :
          /\ Quiescent /\ calls < MaxCalls
          /\ Connect(connectOk, addOk, ready)
          /\ UNCHANGED <<concVars, sub, statVars>>
    \/ Quiescent /\ calls < MaxCalls /\ Close /\ UNCHANGED <<concVars, sub, statVars>>
    \/ \E w \in SeqWriters, n \in 0..MaxBatch :
          Quiescent /\ calls < MaxCalls /\ WriteBegin(w, n) /\ UNCHANGED <<concVars, sub, statVars>>
    \/ \E w \in SeqWriters, m \in Metrics : WriteRange(w, m) /\ UNCHANGED <<concVars, sub, statVars>>
    \/ \E w \in SeqWriters : WriteEnd(w) /\ UNCHANGED <<concVars, sub, statVars>>
    \/ \E w \in SeqWriters, result \in OfferResults :
          PublishAttempt(w, result) /\ UNCHANGED <<concVars, sub, statVars>>
    \/ \E w \in SeqWriters : PublishExhausted(w) /\ UNCHANGED <<concVars, sub, statVars>>
    \/ \E w \in SeqWriters : WriteRecord(w) /\ UNCHANGED <<concVars, sub, statVars>>

Spec == Init /\ [][Next]_vars

\* A publisher with one of the configurations Connect accepts, used by Write
\* calls of two goroutines and Close calls of a third at the same time.
ConcConfigs ==
    {c \in Configs : c.Channel # "" /\ c.StreamID # 0 /\ c.MaxMessageSize = 0
                       /\ c.MaxRetries = 1 /\ c.RetryDelay = 2
                       /\ c.RetryBackoffMultiplier = 0}

\* What the serializer and the transport do in those runs: every metric is
\* serialized, and an offer succeeds, is back-pressured or finds the
\* publication closed.
ConcMetrics == {m \in Metrics : m.ok /\ m.len = 2}
ConcResults == {PublicationClosed, BackPressured, 1}

InitConc == Init /\ cfg \in ConcConfigs /\ serializer

\* Neither Connect nor Close is in progress.
NoLifecycleCall == closer = "idle" /\ connector = "idle"

\* Write and Close called from different goroutines at any time; Connect is
\* called while no other call is in progress.
NextWriteClose ==
    \/ \E connectOk \in BOOLEAN, addOk \in BOOLEAN, ready \in BOOLEAN :
          /\ Quiescent /\ NoLifecycleCall /\ calls < MaxConcCalls
          /\ Connect(connectOk, addOk, ready)
          /\ UNCHANGED <<concVars, sub, statVars>>
    \/ calls < MaxConcCalls /\ CloseLock /\ UNCHANGED <<sub, statVars>>
    \/ CloseLocked /\ UNCHANGED <<sub, statVars>>
    \/ \E w \in Writers, n \in 0..MaxConcBatch :
          calls < MaxConcCalls /\ WriteBegin(w, n) /\ UNCHANGED <<concVars, sub, statVars>>
    \/ \E w \in Writers, m \in ConcMetrics : WriteRange(w, m) /\ UNCHANGED <<concVars, sub, statVars>>
    \/ \E w \in Writers : WriteEnd(w) /\ UNCHANGED <<concVars, sub, statVars>>
    \/ \E w \in Writers, result \in ConcResults :
          PublishAttempt(w, result) /\ UNCHANGED <<concVars, sub, statVars>>
    \/ \E w \in Writers : PublishExhausted(w) /\ UNCHANGED <<concVars, sub, statVars>>
    \/ \E w \in Writers : WriteRecord(w) /\ UNCHANGED <<concVars, sub, statVars>>

SpecWriteClose == InitConc /\ [][NextWriteClose]_vars

\* API calls and metrics per Write in the runs that are checked for progress.
MaxFairCalls == 3
MaxFairBatch == 1

\* Every offer of those runs is answered: back-pressured or accepted.
FairResults == {BackPressured, 1}

\* The steps of goroutine w inside a Write call it has begun.
WriteStep(w) ==
    \/ \E m \in ConcMetrics : WriteRange(w, m)
    \/ WriteEnd(w)
    \/ \E result \in FairResults : PublishAttempt(w, result)
    \/ PublishExhausted(w)
    \/ WriteRecord(w)

\* One Connect that succeeds, then Write and Close called from different
\* goroutines at any time.
NextCloseFair ==
    \/ /\ Quiescent /\ NoLifecycleCall /\ calls < MaxFairCalls /\ ~connected
       /\ Connect(TRUE, TRUE, TRUE)
       /\ UNCHANGED <<concVars, sub, statVars>>
    \/ calls < MaxFairCalls /\ CloseLock /\ UNCHANGED <<sub, statVars>>
    \/ CloseLocked /\ UNCHANGED <<sub, statVars>>
    \/ \E w \in Writers, n \in 0..MaxFairBatch :
          calls < MaxFairCalls /\ WriteBegin(w, n) /\ UNCHANGED <<concVars, sub, statVars>>
    \/ \E w \in Writers, m \in ConcMetrics : WriteRange(w, m) /\ UNCHANGED <<concVars, sub, statVars>>
    \/ \E w \in Writers : WriteEnd(w) /\ UNCHANGED <<concVars, sub, statVars>>
    \/ \E w \in Writers, result \in FairResults :
          PublishAttempt(w, result) /\ UNCHANGED <<concVars, sub, statVars>>
    \/ \E w \in Writers : PublishExhausted(w) /\ UNCHANGED <<concVars, sub, statVars>>
    \/ \E w \in Writers : WriteRecord(w) /\ UNCHANGED <<concVars, sub, statVars>>

\* The scheduler lets every goroutine inside Write take its next step (the
\* offer and the sleep return), and a.mutex.Lock() return once the readers
\* have left.
SpecCloseFair ==
    /\ InitConc /\ [][NextCloseFair]_vars
    /\ \A w \in Writers : WF_vars(WriteStep(w) /\ UNCHANGED <<concVars, sub, statVars>>)
    /\ WF_vars(CloseLocked /\ UNCHANGED <<sub, statVars>>)

\* Connect called from one goroutine while two others call Write.
NextConnectWrite ==
    \/ \E connectOk \in BOOLEAN, addOk \in BOOLEAN :
          calls < MaxConcCalls /\ ConnectStart(connectOk, addOk) /\ UNCHANGED <<sub, statVars>>
    \/ \E ready \in BOOLEAN : ConnectWait(ready) /\ UNCHANGED <<sub, statVars>>
    \/ ConnectFinish /\ UNCHANGED <<sub, statVars>>
    \/ \E w \in Writers, n \in 0..MaxConcBatch :
          calls < MaxConcCalls /\ WriteBegin(w, n) /\ UNCHANGED <<concVars, sub, statVars>>
    \/ \E w \in Writers, m \in ConcMetrics : WriteRange(w, m) /\ UNCHANGED <<concVars, sub, statVars>>
    \/ \E w \in Writers : WriteEnd(w) /\ UNCHANGED <<concVars, sub, statVars>>
    \/ \E w \in Writers, result \in ConcResults :
          PublishAttempt(w, result) /\ UNCHANGED <<concVars, sub, statVars>>
    \/ \E w \in Writers : PublishExhausted(w) /\ UNCHANGED <<concVars, sub, statVars>>
    \/ \E w \in Writers : WriteRecord(w) /\ UNCHANGED <<concVars, sub, statVars>>

SpecConnectWrite == InitConc /\ [][NextConnectWrite]_vars

\* --------------------------------------------------------- AeronSubscriber
\* The defaults Init writes into the fields left at zero.
InitDefaults(c) ==
    [c EXCEPT !.FragmentLimit = IF @ = 0 THEN DefaultFragmentLimit ELSE @,
              !.IdleStrategy = IF @ = "" THEN "backoff" ELSE @]

\* Init's validation: the error it returns, or "nil".
InitValidate(c) ==
    IF c.Channel = "" THEN "channel_required"
    ELSE IF c.StreamID < 0 THEN "stream_id_negative"
    ELSE "nil"

\* Init, called by the framework once, before anything else.
SubscriberInit ==
    /\ sub.initErr = "unset"
    /\ sub.lastCall = "none"
    /\ sub' = [sub EXCEPT !.cfg = InitDefaults(@),
                          !.initErr = InitValidate(InitDefaults(sub.cfg)),
                          !.lastCall = "Init"]

\* A faulty variant of CloseClient: the client is left open.
CloseClientSkipped(closed, id) == closed

\* a.aeron.Close() on client id.
CloseClient(closed, id) == closed \cup {id}

\* Start(acc), with what the transport answers to connect: whether
\* aeron.Connect succeeds and whether AddSubscription succeeds. The framework
\* calls Start only when Init has returned nil.
Start(connectOk, addOk) ==
    /\ sub.initErr = "nil"
    /\ sub.stopper = "idle"
    /\ sub' =
         IF ~connectOk
         THEN [sub EXCEPT !.starts = @ + 1, !.lastCall = "Start",
                          !.aeron = 0,
                          !.startErr = "connect_failed"]
         ELSE LET id == sub.nClients + 1 IN
              IF ~addOk
              THEN [sub EXCEPT !.starts = @ + 1, !.lastCall = "Start",
                               !.nClients = id,
                               !.aeron = id,
                               !.subscription = 0,
                               !.closedClients = CloseClient(@, id),
                               !.startErr = "add_subscription_failed"]
              ELSE LET g == sub.nLoops + 1 IN
                   [sub EXCEPT !.starts = @ + 1, !.lastCall = "Start",
                               !.nClients = id,
                               !.aeron = id,
                               !.subscription = id,
                               !.assembler = TRUE,
                               !.cancel = g,
                               !.wg = g,
                               !.wgCount[g] = 1,
                               !.nLoops = g,
                               !.loop[g] = "spawned",
                               !.startErr = "nil"]

\* createIdleStrategy: the names it knows.
ValidStrategy(name) == name \in {"sleeping", "yielding", "busy", "backoff"}

\* Goroutine g returns: its deferred Done runs on the WaitGroup it read, and a
\* counter that falls below zero panics.
Return(s, g) ==
    LET id == s.myWg[g] IN
    [s EXCEPT !.loop[g] = "exited",
              !.wgCount[id] = @ - 1,
              !.crashed = (s.wgCount[id] - 1 < 0)]

\* Goroutine g starts to run: defer a.wg.Done() reads a.wg as it is now, and
\* consume makes the idle strategy or logs the error and returns.
ConsumeBegin(g) ==
    /\ sub.loop[g] = "spawned"
    /\ sub' = LET s == [sub EXCEPT !.myWg[g] = sub.wg] IN
              IF ValidStrategy(sub.cfg.IdleStrategy)
              THEN [s EXCEPT !.loop[g] = "top"]
              ELSE Return(s, g)

\* A faulty variant of Cancelled: the loop does not look at its context.
CancelledNever(s, g) == FALSE

\* <-ctx.Done() is ready in goroutine g.
Cancelled(s, g) == g \in s.ctxDone

\* The select at the top of the loop: return, or the default case.
ConsumeSelect(g) ==
    /\ sub.loop[g] = "top"
    /\ sub' = IF Cancelled(sub, g)
              THEN Return(sub, g)
              ELSE [sub EXCEPT !.loop[g] = "poll", !.fragmentsRead[g] = 0, !.idleArg[g] = 0]

\* What parser.Parse makes of a message: an error, or n metrics.
Messages == {[ok |-> FALSE, n |-> 0], [ok |-> TRUE, n |-> 2]}

\* The metrics of the i-th message handled, in the order Parse returned them.
Events(i, n) == [k \in 1..n |-> <<i, k>>]

getAccumulator(s) == s.currentAccumulator

\* The fragment handler on a message that Parse turns into m.
FragmentHandler(s, m) ==
    LET i == Len(s.handled) + 1 IN
    [s EXCEPT !.handled = Append(@, m),
              !.sinkLog = IF m.ok /\ getAccumulator(s) # 0 THEN @ \o Events(i, m.n)
                          ELSE @]

\* Poll, in goroutine g, finds a message and calls the handler on it.
PollFragment(g, m) ==
    /\ sub.loop[g] = "poll"
    /\ sub.subscription # 0
    /\ sub.fragmentsRead[g] < sub.cfg.FragmentLimit
    /\ Len(sub.handled) < MaxMessages
    /\ sub' = [FragmentHandler(sub, m) EXCEPT !.fragmentsRead[g] = @ + 1]

\* Poll returns in goroutine g; on a nil a.subscription it panics.
PollReturn(g) ==
    /\ sub.loop[g] = "poll"
    /\ sub' = IF sub.subscription = 0
              THEN [sub EXCEPT !.crashed = TRUE]
              ELSE [sub EXCEPT !.loop[g] = "idle"]

\* Idle called with no work done, whatever Poll returned.
IdleArgumentZero(s, g) == 0

\* The argument of idleStrategy.Idle in goroutine g.
IdleArgument(s, g) == s.fragmentsRead[g]

\* idleStrategy.Idle(fragmentsRead) returns in goroutine g.
Idle(g) ==
    /\ sub.loop[g] = "idle"
    /\ sub' = [sub EXCEPT !.loop[g] = "top", !.idleArg[g] = IdleArgument(sub, g)]

\* Stop calling a.cancel without the nil check: a nil func call panics.
StopCancelsUnchecked ==
    /\ sub.stopper = "idle"
    /\ sub' = IF sub.cancel = 0 THEN [sub EXCEPT !.stops = @ + 1, !.crashed = TRUE]
              ELSE [sub EXCEPT !.stops = @ + 1,
                               !.ctxDone = @ \cup {sub.cancel},
                               !.stopper = IF sub.wg # 0 THEN "wait" ELSE "idle",
                               !.lastCall = IF sub.wg # 0 THEN @ ELSE "Stop"]

\* Stop: the cancel, if there is one, and either the return or wg.Wait().
Stop ==
    /\ sub.stopper = "idle"
    /\ sub' = [sub EXCEPT !.stops = @ + 1,
                          !.ctxDone = IF sub.cancel # 0 THEN @ \cup {sub.cancel} ELSE @,
                          !.stopper = IF sub.wg # 0 THEN "wait" ELSE "idle",
                          !.lastCall = IF sub.wg # 0 THEN @ ELSE "Stop"]

\* a.wg.Wait() returns, and Stop with it.
StopReturn ==
    /\ sub.stopper = "wait"
    /\ sub.wgCount[sub.wg] = 0
    /\ sub' = [sub EXCEPT !.stopper = "idle", !.lastCall = "Stop"]

pubAll == <<pubVars, writeVars, concVars>>

\* The publisher that stands by while the subscriber is exercised.
InitSub ==
    /\ PublisherNew
    /\ cfg = [Channel |-> "", StreamID |-> 0, MaxMessageSize |-> 0, MaxRetries |-> 0,
              RetryDelay |-> 0, RetryBackoffMultiplier |-> 0, MaxRetryDelay |-> 4]
    /\ ~serializer
    /\ sub \in {SubscriberNew(c) : c \in SubConfigs}
    /\ stat = AeronStatUnused
    /\ probe = ProbeUnused

\* The steps of goroutine g.
Consume(g) ==
    \/ ConsumeBegin(g)
    \/ ConsumeSelect(g)
    \/ \E m \in Messages : PollFragment(g, m)
    \/ PollReturn(g)
    \/ Idle(g)

\* The framework's calls on one subscriber, one after another, at most
\* maxStarts of them Start calls, and the goroutines Start has made; a panic
\* ends the process.
SubscriberNext(maxStarts) ==
    \/ ~sub.crashed /\ SubscriberInit /\ UNCHANGED <<pubAll, statVars>>
    \/ \E connectOk \in BOOLEAN, addOk \in BOOLEAN :
          /\ ~sub.crashed /\ sub.starts < maxStarts
          /\ Start(connectOk, addOk)
          /\ UNCHANGED <<pubAll, statVars>>
    \/ ~sub.crashed /\ sub.stops < MaxStops /\ Stop /\ UNCHANGED <<pubAll, statVars>>
    \/ ~sub.crashed /\ StopReturn /\ UNCHANGED <<pubAll, statVars>>
    \/ \E g \in Goroutines : ~sub.crashed /\ ConsumeBegin(g) /\ UNCHANGED <<pubAll, statVars>>
    \/ \E g \in Goroutines : ~sub.crashed /\ ConsumeSelect(g) /\ UNCHANGED <<pubAll, statVars>>
    \/ \E g \in Goroutines, m \in Messages :
          ~sub.crashed /\ PollFragment(g, m) /\ UNCHANGED <<pubAll, statVars>>
    \/ \E g \in Goroutines : ~sub.crashed /\ PollReturn(g) /\ UNCHANGED <<pubAll, statVars>>
    \/ \E g \in Goroutines : ~sub.crashed /\ Idle(g) /\ UNCHANGED <<pubAll, statVars>>

NextSub == SubscriberNext(MaxStarts)

SpecSub == InitSub /\ [][NextSub]_vars

\* A subscriber the framework starts as it does in normal operation.
NextLoop == SubscriberNext(MaxLoopStarts)

\* The scheduler lets every goroutine that can take a step take one, and
\* wg.Wait() return once the counter is zero.
SpecLoopFair ==
    /\ InitSub /\ [][NextLoop]_vars
    /\ \A g \in Goroutines : WF_vars(~sub.crashed /\ Consume(g) /\ UNCHANGED <<pubAll, statVars>>)
    /\ WF_vars(~sub.crashed /\ StopReturn /\ UNCHANGED <<pubAll, statVars>>)

\* ------------------------------------------------- Part 3: the AeronStat input
\* Strings are Go strings: Len is len(), offsets count from 0.

\* Counters one Scan can pass to its callback.
MaxCounters == 2
\* Init, Start, Gather and Stop calls issued on one collector.
MaxStatCalls == 3
\* The type ids parseCounterType and getMeasurementName are applied to run
\* from -MaxNegTypeId to MaxTypeId, and the one of the unit tests.
MaxNegTypeId == 3
MaxTypeId == 38
UnlistedTypeId == 999
\* 5 * time.Second, in seconds.
DefaultReadTimeout == 5

\* s[from:to]
Slice(s, from, to) == SubSeq(s, from + 1, to)

\* strings.LastIndex(s, substr)
LastIndex(s, substr) ==
    LET at == {i \in 0..(Len(s) - Len(substr)) : SubSeq(s, i + 1, i + Len(substr)) = substr}
    IN  IF at = {} THEN -1 ELSE CHOOSE i \in at : \A j \in at : i >= j

\* strings.Index(s, substr)
Index(s, substr) ==
    LET at == {i \in 0..(Len(s) - Len(substr)) : Slice(s, i, i + Len(substr)) = substr}
    IN  IF at = {} THEN -1 ELSE CHOOSE i \in at : \A j \in at : i <= j

\* strings.Contains(s, substr)
Contains(s, substr) == Index(s, substr) >= 0

DigitChar(d) ==
    CASE d = 0 -> "0" [] d = 1 -> "1" [] d = 2 -> "2" [] d = 3 -> "3" [] d = 4 -> "4"
      [] d = 5 -> "5" [] d = 6 -> "6" [] d = 7 -> "7" [] d = 8 -> "8" [] d = 9 -> "9"

RECURSIVE Decimal(_)
Decimal(n) == IF n < 10 THEN DigitChar(n) ELSE Decimal(n \div 10) \o DigitChar(n % 10)

\* fmt.Sprintf("%d", n) losing the sign.
Sprintf_dUnsigned(n) == IF n < 0 THEN Decimal(-n) ELSE Decimal(n)

\* fmt.Sprintf("%d", n)
Sprintf_d(n) == IF n < 0 THEN "-" \o Decimal(-n) ELSE Decimal(n)

parseCounterType(typeId) ==
    CASE typeId = 0 -> "system_counter"
      [] typeId = 1 -> "bytes_sent"
      [] typeId = 2 -> "bytes_received"
      [] typeId = 3 -> "failed_offers"
      [] typeId = 4 -> "nak_messages_sent"
      [] typeId = 5 -> "nak_messages_received"
      [] typeId = 6 -> "status_messages_sent"
      [] typeId = 7 -> "status_messages_received"
      [] typeId = 8 -> "heartbeats_sent"
      [] typeId = 9 -> "heartbeats_received"
      [] typeId = 10 -> "retransmits_sent"
      [] typeId = 11 -> "flow_control_under_runs"
      [] typeId = 12 -> "flow_control_over_runs"
      [] typeId = 13 -> "invalid_packets"
      [] typeId = 14 -> "errors"
      [] typeId = 15 -> "short_sends"
      [] typeId = 16 -> "free_fails"
      [] typeId = 17 -> "sender_flow_control_limits"
      [] typeId = 18 -> "unblocked_publications"
      [] typeId = 19 -> "unblocked_control_commands"
      [] typeId = 20 -> "possible_ttl_asymmetry"
      [] typeId = 21 -> "reception_rate"
      [] typeId = 22 -> "sender_bpe"
      [] typeId = 23 -> "receiver_hwm"
      [] typeId = 24 -> "receiver_pos"
      [] typeId = 25 -> "sender_pos"
      [] typeId = 26 -> "sender_limit"
      [] typeId = 27 -> "per_image_type_id"
      [] typeId = 28 -> "publication_limit"
      [] typeId = 29 -> "sender_bpe_manual"
      [] typeId = 30 -> "subscription_pos"
      [] typeId = 31 -> "stream_pos"
      [] typeId = 32 -> "publisher_pos"
      [] typeId = 33 -> "publisher_limit"
      [] typeId = 34 -> "client_heartbeat"
      [] typeId = 35 -> "client_keepalive"
      [] OTHER -> "unknown_" \o Sprintf_d(typeId)

\* getMeasurementName choosing by the kind string where it has one.
getMeasurementNameByKind(typeId, counterType) ==
    CASE counterType = "bytes_sent" -> "aeron_bytes"
      [] typeId >= 1 /\ typeId <= 2 -> "aeron_bytes"
      [] typeId >= 4 /\ typeId <= 10 -> "aeron_messages"
      [] typeId >= 11 /\ typeId <= 20 -> "aeron_flow_control"
      [] typeId >= 21 /\ typeId <= 26 -> "aeron_positions"
      [] typeId >= 27 /\ typeId <= 33 -> "aeron_streams"
      [] typeId >= 34 /\ typeId <= 35 -> "aeron_clients"
      [] typeId = 0 -> "aeron_system"
      [] OTHER -> "aeron_counter"

getMeasurementName(typeId, counterType) ==
    CASE typeId >= 1 /\ typeId <= 2 -> "aeron_bytes"
      [] typeId >= 4 /\ typeId <= 10 -> "aeron_messages"
      [] typeId >= 11 /\ typeId <= 20 -> "aeron_flow_control"
      [] typeId >= 21 /\ typeId <= 26 -> "aeron_positions"
      [] typeId >= 27 /\ typeId <= 33 -> "aeron_streams"
      [] typeId >= 34 /\ typeId <= 35 -> "aeron_clients"
      [] typeId = 0 -> "aeron_system"
      [] OTHER -> "aeron_counter"

\* strconv.ParseInt(s, 10, 64): an optional sign, then one or more decimal
\* digits and nothing else.  The strings of the model are far too short to
\* leave the int64 range.
Digits == {DigitChar(d) : d \in 0..9}

DigitValue(c) == CHOOSE d \in 0..9 : DigitChar(d) = c

RECURSIVE Magnitude(_)
Magnitude(s) ==
    IF Len(s) = 0 THEN 0
    ELSE 10 * Magnitude(Slice(s, 0, Len(s) - 1)) + DigitValue(Slice(s, Len(s) - 1, Len(s)))

ParseInt(s) ==
    LET signed == Len(s) > 0 /\ Slice(s, 0, 1) \in {"+", "-"}
        body == IF signed THEN Slice(s, 1, Len(s)) ELSE s
        ok == Len(body) > 0 /\ \A i \in 0..(Len(body) - 1) : Slice(body, i, i + 1) \in Digits
    IN  [err |-> ~ok,
         value |-> IF ~ok THEN 0
                   ELSE IF signed /\ Slice(s, 0, 1) = "-" THEN -Magnitude(body)
                   ELSE Magnitude(body)]

\* s[from:to] does not panic with "slice bounds out of range".
InRange(s, from, to) == 0 <= from /\ from <= to /\ to <= Len(s)

\* strings.Index(s, marker) + n with n one too large.
MarkerEndOneTooFar(s, marker, n) == Index(s, marker) + n + 1

\* strings.Index(s, marker) + n: where the text after the marker starts.
MarkerEnd(s, marker, n) == Index(s, marker) + n

\* The block of parseCounterLabel for "stream-id=" (n = 10) or "session-id="
\* (n = 11), taking the text up to the end of the label.
LabelIntToEnd(label, marker, n, field) ==
    IF ~Contains(label, marker) THEN <<>>
    ELSE LET parsed == ParseInt(Slice(label, MarkerEnd(label, marker, n), Len(label)))
         IN  IF parsed.err THEN <<>> ELSE field :> parsed.value

\* The block of parseCounterLabel for "stream-id=" (n = 10) or "session-id="
\* (n = 11): the field, if the label has the marker and an integer after it.
LabelInt(label, marker, n, field) ==
    IF ~Contains(label, marker) THEN <<>>
    ELSE LET start == MarkerEnd(label, marker, n)
             rest == Slice(label, start, Len(label))
             end == IF Index(rest, " ") = -1 THEN Len(rest) ELSE Index(rest, " ")
             parsed == ParseInt(Slice(label, start, start + end))
         IN  IF parsed.err THEN <<>> ELSE field :> parsed.value

\* One of the slice expressions of that block panics.
LabelIntPanics(label, marker, n) ==
    /\ Contains(label, marker)
    /\ LET start == MarkerEnd(label, marker, n)
           rest == Slice(label, start, Len(label))
           end == IF Index(rest, " ") = -1 THEN Len(rest) ELSE Index(rest, " ")
       IN  ~InRange(label, start, Len(label)) \/ ~InRange(label, start, start + end)

\* One of the slice expressions of the "aeron:" block panics.
ChannelPanics(label) ==
    /\ Contains(label, "aeron:")
    /\ LET fromAeron == Slice(label, Index(label, "aeron:"), Len(label))
           spaceIdx == Index(fromAeron, " ")
           channelPart == IF spaceIdx > 0 THEN Slice(fromAeron, 0, spaceIdx) ELSE fromAeron
           endpointStart == MarkerEnd(channelPart, "endpoint=", 9)
           afterStart == Slice(channelPart, endpointStart, Len(channelPart))
           endpointEnd == IF Index(afterStart, "&") = -1 THEN Len(afterStart)
                          ELSE Index(afterStart, "&")
       IN  /\ Contains(channelPart, "endpoint=")
           /\ \/ ~InRange(channelPart, endpointStart, Len(channelPart))
              \/ ~InRange(channelPart, endpointStart, endpointStart + endpointEnd)

\* parseCounterLabel; panics: the call ends in a run-time panic (the other
\* fields are then what it had built up to there).
parseCounterLabel(label) ==
    LET fromAeron == Slice(label, Index(label, "aeron:"), Len(label))
        spaceIdx == Index(fromAeron, " ")
        channelPart == IF spaceIdx > 0 THEN Slice(fromAeron, 0, spaceIdx) ELSE fromAeron
        endpointStart == MarkerEnd(channelPart, "endpoint=", 9)
        afterStart == Slice(channelPart, endpointStart, Len(channelPart))
        endpointEnd == IF Index(afterStart, "&") = -1 THEN Len(afterStart)
                       ELSE Index(afterStart, "&")
        endpoint == Slice(channelPart, endpointStart, endpointStart + endpointEnd)
        streamPanics == LabelIntPanics(label, "stream-id=", 10)
        sessionPanics == LabelIntPanics(label, "session-id=", 11)
    IN  [tags |-> IF ~Contains(label, "aeron:") THEN <<>>
                  ELSE IF ~Contains(channelPart, "endpoint=") \/ ChannelPanics(label)
                  THEN "channel" :> channelPart
                  ELSE ("endpoint" :> endpoint) @@ ("channel" :> channelPart),
         fields |-> (IF ChannelPanics(label) \/ streamPanics \/ sessionPanics THEN <<>>
                     ELSE LabelInt(label, "session-id=", 11, "session_id"))
                       @@ (IF ChannelPanics(label) \/ streamPanics THEN <<>>
                           ELSE LabelInt(label, "stream-id=", 10, "stream_id"))
                       @@ ("label" :> label),
         panics |-> ChannelPanics(label) \/ streamPanics \/ sessionPanics]

\* cleanup forgetting the mapped file without closing it.
cleanupWithoutClose(s) == [s EXCEPT !.cncFile = 0, !.counterFile = 0, !.reader = 0]

\* cleanup
cleanup(s) ==
    [s EXCEPT !.closedFiles = IF s.cncFile # 0 THEN @ \cup {s.cncFile} ELSE @,
              !.cncFile = 0, !.counterFile = 0, !.reader = 0]

\* initializeReader keeping the handles it had when MapFile fails.
initializeReaderKeepsOld(s, mapOk) ==
    IF ~mapOk THEN [s EXCEPT !.nMaps = @ + 1, !.lastErr = "failed to map CnC file"]
    ELSE [cleanup(s) EXCEPT !.nMaps = @ + 1, !.mapped = @ \cup {s.nMaps + 1},
                            !.counterFile = s.nMaps + 1, !.cncFile = s.nMaps + 1,
                            !.reader = s.nMaps + 1, !.lastErr = "nil"]

\* initializeReader; lastErr holds what it returns.  mapOk: counters.MapFile
\* finds the CnC file and maps it.
initializeReader(s, mapOk) ==
    LET id == s.nMaps + 1
        c == [cleanup(s) EXCEPT !.nMaps = id]
    IN  IF ~mapOk THEN [c EXCEPT !.lastErr = "failed to map CnC file"]
        ELSE [c EXCEPT !.mapped = @ \cup {id},
                       !.counterFile = id, !.cncFile = id, !.reader = id, !.lastErr = "nil"]

\* The Scan callback copying the configured tags last, over the others.
CounterRecordStaticWins(s, counter) ==
    LET counterType == parseCounterType(counter.TypeId)
        parsedLabel == parseCounterLabel(counter.Label)
    IN  [measurement |-> getMeasurementName(counter.TypeId, counterType),
         fields |-> parsedLabel.fields @@ ("value" :> counter.Value),
         tags |-> s.Tags
                     @@ parsedLabel.tags
                     @@ (IF counterType # "" THEN "counter_type" :> counterType ELSE <<>>)
                     @@ ("type_id" :> Sprintf_d(counter.TypeId))
                     @@ ("counter_id" :> Sprintf_d(counter.Id))]

\* The body of the Scan callback past counterCount++: the acc.AddFields call
\* made for one counter.
CounterRecord(s, counter) ==
    LET counterType == parseCounterType(counter.TypeId)
        parsedLabel == parseCounterLabel(counter.Label)
    IN  [measurement |-> getMeasurementName(counter.TypeId, counterType),
         fields |-> parsedLabel.fields @@ ("value" :> counter.Value),
         tags |-> parsedLabel.tags
                     @@ (IF counterType # "" THEN "counter_type" :> counterType ELSE <<>>)
                     @@ ("type_id" :> Sprintf_d(counter.TypeId))
                     @@ ("counter_id" :> Sprintf_d(counter.Id))
                     @@ s.Tags]

\* The acc.AddFields call after the scan.
SummaryRecord(s, counterCount) ==
    [measurement |-> "aeron_stat_summary",
     fields |-> "total_counters" :> counterCount,
     tags |-> s.Tags]

\* collectCounters leaving the summary out when the scan found nothing.
collectCountersSummaryIfAny(s, source) ==
    [s EXCEPT !.scanned = source,
              !.emitted = [i \in 1..Len(source) |-> CounterRecord(s, source[i])]
                            \o (IF Len(source) = 0 THEN <<>>
                                ELSE <<SummaryRecord(s, Len(source))>>),
              !.lastErr = "nil"]

\* collectCounters; source is what the CnC file holds while Scan runs.
collectCounters(s, source) ==
    IF s.reader = 0 THEN [s EXCEPT !.lastErr = "counter reader not initialized"]
    ELSE [s EXCEPT !.scanned = source,
                   !.emitted = [i \in 1..Len(source) |-> CounterRecord(s, source[i])]
                                 \o <<SummaryRecord(s, Len(source))>>,
                   !.lastErr = "nil"]

\* AeronStat.Init
AeronStatInit ==
    stat' = [stat EXCEPT !.ReadTimeout = IF @ = 0 THEN DefaultReadTimeout ELSE @,
                         !.AeronDir = IF @ = "" THEN "DefaultAeronDir/aeron-UserName" ELSE @,
                         !.lastCall = "Init", !.lastErr = "nil", !.calls = @ + 1]

\* AeronStat.Start
StatStart(mapOk) ==
    LET s == initializeReader(stat, mapOk)
    IN  stat' = [s EXCEPT !.lastErr = IF @ = "nil" THEN "nil"
                                      ELSE "failed to initialize CnC reader: " \o @,
                          !.lastCall = "Start", !.calls = @ + 1]

\* AeronStat.Stop
StatStop ==
    stat' = [cleanup(stat) EXCEPT !.lastCall = "Stop", !.lastErr = "nil", !.calls = @ + 1]

\* Gather adding the summary record also when the reader cannot be initialized.
GatherSummaryOnError(mapOk, source) ==
    LET called == [stat EXCEPT !.lastCall = "Gather", !.calls = @ + 1,
                               !.scanned = <<>>, !.emitted = <<>>]
        ready == IF called.reader = 0 THEN initializeReader(called, mapOk)
                 ELSE [called EXCEPT !.lastErr = "nil"]
    IN  stat' = IF ready.lastErr # "nil"
                THEN [ready EXCEPT !.emitted = <<SummaryRecord(ready, 0)>>]
                ELSE collectCounters(ready, source)

\* AeronStat.Gather with a fresh accumulator
Gather(mapOk, source) ==
    LET called == [stat EXCEPT !.lastCall = "Gather", !.calls = @ + 1,
                               !.scanned = <<>>, !.emitted = <<>>]
        ready == IF called.reader = 0 THEN initializeReader(called, mapOk)
                 ELSE [called EXCEPT !.lastErr = "nil"]
        collected == collectCounters(ready, source)
    IN  stat' = IF ready.lastErr # "nil" THEN ready
                ELSE IF collected.lastErr # "nil" THEN cleanup(collected)
                ELSE collected

\* The configurations: aeron_dir, read_timeout (in seconds) and the static tags.
StatConfigs ==
    {[Tags |-> <<>>, AeronDir |-> "", ReadTimeout |-> 0],
     [Tags |-> "environment" :> "production", AeronDir |-> "/dev/shm/aeron", ReadTimeout |-> 1],
     [Tags |-> ("counter_id" :> "9") @@ ("channel" :> "static"), AeronDir |-> "",
      ReadTimeout |-> 1]}

\* What a counter of the CnC file can be, but for its id.
CounterKinds ==
    {[TypeId |-> 1, Value |-> 7,
      Label |-> "pub aeron:udp?endpoint=h:1 stream-id=10"],
     [TypeId |-> 3, Value |-> 0, Label |-> "Failed offers"],
     [TypeId |-> 36, Value |-> 1, Label |-> "session-id=x"]}

\* What the CnC file can hold: up to MaxCounters allocated counters, which
\* Scan visits by ascending id.
Sources ==
    UNION {{[i \in 1..n |-> [Id |-> i - 1, TypeId |-> k[i].TypeId, Value |-> k[i].Value,
                             Label |-> k[i].Label]] : k \in [1..n -> CounterKinds]}
           : n \in 0..MaxCounters}

\* The publisher and the subscriber that stand by while the collector is
\* exercised.
InitStandBy ==
    /\ PublisherNew
    /\ cfg = [Channel |-> "", StreamID |-> 0, MaxMessageSize |-> 0, MaxRetries |-> 0,
              RetryDelay |-> 0, RetryBackoffMultiplier |-> 0, MaxRetryDelay |-> 4]
    /\ ~serializer
    /\ sub = SubscriberUnused

InitStat ==
    /\ InitStandBy
    /\ stat \in {AeronStatNew(c) : c \in StatConfigs}
    /\ probe = ProbeUnused

\* The framework's calls on one collector, one after another.  Gather maps
\* the file only when a.reader is nil, and scans only what it could map.
NextStat ==
    \/ stat.calls < MaxStatCalls /\ AeronStatInit /\ UNCHANGED <<pubAll, sub, probe>>
    \/ \E mapOk \in BOOLEAN :
          stat.calls < MaxStatCalls /\ StatStart(mapOk) /\ UNCHANGED <<pubAll, sub, probe>>
    \/ stat.calls < MaxStatCalls /\ StatStop /\ UNCHANGED <<pubAll, sub, probe>>
    \/ \E mapOk \in (IF stat.reader = 0 THEN BOOLEAN ELSE {TRUE}) :
          \E source \in (IF mapOk THEN Sources ELSE {<<>>}) :
             stat.calls < MaxStatCalls /\ Gather(mapOk, source)
                /\ UNCHANGED <<pubAll, sub, probe>>

SpecStat == InitStat /\ [][NextStat]_vars

\* The type ids and kind strings the classification functions are applied to.
TypeIds == ((-MaxNegTypeId)..MaxTypeId) \cup {UnlistedTypeId}

KindStrings == {"", "bytes_sent", "unknown_999"}

InitClassify ==
    /\ InitStandBy
    /\ stat = AeronStatUnused
    /\ probe \in {[ProbeUnused EXCEPT !.typeId = t, !.counterType = k] :
                     t \in TypeIds, k \in KindStrings}

\* One call of parseCounterType(typeId) and one of
\* getMeasurementName(typeId, counterType).
Classify ==
    /\ ~probe.applied
    /\ probe' = [probe EXCEPT !.applied = TRUE,
                              !.kind = parseCounterType(probe.typeId),
                              !.measurement = getMeasurementName(probe.typeId,
                                                                 probe.counterType)]

NextClassify == Classify /\ UNCHANGED <<pubAll, sub, stat>>

SpecClassify == InitClassify /\ [][NextClassify]_vars

\* The labels parseCounterLabel is applied to are made of up to
\* MaxLabelPieces of these pieces, or are one of the examples.
MaxLabelPieces == 3

LabelPieces == {"aeron:", "endpoint=", "stream-id=", "session-id=", " ", "&", "7", "-", "x"}

\* The labels of TestAeronStat_ParseCounterLabel and of the README's example
\* output, and one with every marker.
ExampleLabels ==
    {"Simple label",
     "aeron:udp?endpoint=localhost:40123 stream-id=10",
     "Publication: aeron:udp?endpoint=localhost:40123 stream-id=10",
     "NAK messages sent",
     "snd-pos: 7 session-id=-12 stream-id=+007 aeron:udp?endpoint=h:1&ttl=4 x"}

RECURSIVE Concat(_)
Concat(pieces) == IF pieces = <<>> THEN "" ELSE Head(pieces) \o Concat(Tail(pieces))

Labels ==
    ExampleLabels
       \cup {Concat(ps) : ps \in UNION {[1..n -> LabelPieces] : n \in 0..MaxLabelPieces}}

\* No application of parseCounterLabel yet.
LabelProbe(l) == [label |-> l, applied |-> FALSE, parsed |-> [tags |-> <<>>, fields |-> <<>>,
                                                               panics |-> FALSE]]

InitLabel ==
    /\ InitStandBy
    /\ stat = AeronStatUnused
    /\ probe \in {LabelProbe(l) : l \in Labels}

\* One call of parseCounterLabel(label).
ParseLabel ==
    /\ ~probe.applied
    /\ probe' = [probe EXCEPT !.applied = TRUE, !.parsed = parseCounterLabel(probe.label)]

NextLabel == ParseLabel /\ UNCHANGED <<pubAll, sub, stat>>

SpecLabel == InitLabel /\ [][NextLabel]_vars

\* ------------------------------------------------------------------ claims
\* The publishMessage call of goroutine w has made an offer and has not been
\* left behind by the range loop.
Offered(w) == pc[w] \in {"for", "returned"} /\ offers[w] > 0

\* A result that is neither a new stream position nor publication-closed.
RetryableResult(r) == r <= 0 /\ r # PublicationClosed

\* The condition each result stands for, as the error texts name it.
ConditionOf(r) ==
    CASE r = BackPressured -> "backpressure"
      [] r = NotConnected -> "publication_not_connected"
      [] r = AdminAction -> "admin_action_required"
      [] r = PublicationClosed -> "publication_closed"
      [] OTHER -> "unknown_result_code"

\* C1: a publishMessage call with MaxRetries = R >= 0 whose offers all returned
\* a retryable result has, once it has returned, made exactly R + 1 offers and
\* returned the exhausted-retries error that wraps the condition of the last offer.
C1_ExhaustedAfterAllAttempts ==
    \A w \in Writers :
        (pc[w] = "returned" /\ cfg.MaxRetries >= 0 /\ RetryableResult(lastResult[w]))
        => /\ offers[w] = cfg.MaxRetries + 1
           /\ pubErr[w].kind = "failed_after_retries"
           /\ pubErr[w].cause.kind = ConditionOf(lastResult[w])
           /\ pubErr[w].cause.code = (IF ConditionOf(lastResult[w]) = "unknown_result_code"
                                      THEN lastResult[w] ELSE 0)

C1_Witness ==
    /\ pc[1] = "returned"
    /\ pubErr[1].kind = "failed_after_retries"
    /\ cfg.MaxRetries = DefaultMaxRetries
    /\ offers[1] = DefaultMaxRetries + 1
    /\ lastResult[1] = BackPressured

\* C2: once an offer has returned publication-closed, publishMessage has
\* returned the closed-publication error: the loop is not running any more, and
\* the sleeps of the call are the ones before its offers, none after the last.
C2_ClosedIsTerminal ==
    \A w \in Writers :
        (Offered(w) /\ lastResult[w] = PublicationClosed)
        => /\ pc[w] = "returned"
           /\ pubErr[w].kind = "publication_closed"
           /\ Len(sleeps[w]) = offers[w] - 1

C2_Witness ==
    /\ pc[1] = "returned"
    /\ lastResult[1] = PublicationClosed
    /\ offers[1] = 2
    /\ cfg.MaxRetries = DefaultMaxRetries

\* C3: once an offer has returned a positive result, publishMessage has returned
\* nil; the k retryable results before it (k <= MaxRetries) have raised the retry
\* counter by exactly k since the call began.
C3_SuccessCountsRetries ==
    \A w \in Writers :
        (Offered(w) /\ lastResult[w] > 0)
        => /\ pc[w] = "returned"
           /\ pubErr[w] = nil
           /\ offers[w] - 1 <= cfg.MaxRetries
           /\ stats.retryAttempts - before[w].retryAttempts = offers[w] - 1

C3_Witness ==
    /\ pc[1] = "returned"
    /\ pubErr[1] = nil
    /\ lastResult[1] > 0
    /\ offers[1] = 4
    /\ stats.retryAttempts = before[1].retryAttempts + 3

\* C4: after an offer that returned a retryable result (back-pressured,
\* not-connected, admin-action-required or any other non-positive code but
\* publication-closed), with fewer than MaxRetries + 1 offers made, the call has
\* not returned: it is in its loop, whose next attempt is within the bound.
C4_RetryableContinues ==
    \A w \in Writers :
        (Offered(w) /\ RetryableResult(lastResult[w]) /\ offers[w] < cfg.MaxRetries + 1)
        => /\ pc[w] = "for"
           /\ attempt[w] = offers[w]
           /\ attempt[w] <= cfg.MaxRetries

C4_Witness ==
    /\ pc[1] = "for"
    /\ offers[1] = 1
    /\ lastResult[1] = 0
    /\ lastErr[1].kind = "unknown_result_code"

\* C5 (as claimed): no delay slept in a publish call is longer than the
\* configured maximum retry delay.
C5_SleepsWithinMaximum ==
    \A w \in Writers : \A i \in 1..Len(sleeps[w]) : sleeps[w][i] <= cfg.MaxRetryDelay

\* C6 (as claimed): the delays slept in a publish call are non-decreasing.
C6_SleepsNonDecreasing ==
    \A w \in Writers : \A i \in 1..(Len(sleeps[w]) - 1) : sleeps[w][i] <= sleeps[w][i + 1]

\* C7: a Write on a publisher that is not connected returns the not-connected
\* error, also when no serializer is set; a Write on a connected publisher with
\* no serializer returns the serializer-not-set error; either way the call is
\* over with no offer made and no counter changed.
C7_WritePreconditions ==
    [][\A w \in Writers : \A n \in 0..MaxBatch :
          WriteBegin(w, n) =>
            /\ (~connected \/ publication = 0)
               => /\ ret'[w].kind = "not_connected"
                  /\ pc'[w] = "idle"
                  /\ stats' = stats
                  /\ offered' = offered
            /\ (connected /\ publication # 0 /\ ~serializer)
               => /\ ret'[w].kind = "serializer_not_set"
                  /\ pc'[w] = "idle"
                  /\ stats' = stats
                  /\ offered' = offered]_vars

C7_Witness ==
    /\ calls > 0
    /\ ~connected
    /\ ~serializer
    /\ ret[1].kind = "not_connected"
    /\ pc[1] = "idle"

\* C8 (as claimed): a Write that has returned after leaving a payload of its
\* batch unpublished has returned an error.  (The caller's goroutine is the one
\* whose reading of the counters at the call, atCall, is compared.)
C8_DropsReturnAnError ==
    \A w \in SeqWriters :
        (pc[w] = "idle" /\ stats.messagesDropped > atCall[w].messagesDropped)
        => ret[w] # nil

\* C8 (amended): a Write that has returned after leaving a payload of its batch
\* unpublished has returned nil all the same; what it dropped and what it
\* published are both in the counters, at most one count for each payload.
C8_DropsReturnNil ==
    \A w \in SeqWriters :
        (pc[w] = "idle" /\ stats.messagesDropped > atCall[w].messagesDropped)
        => /\ ret[w] = nil
           /\ stats.messagesSent >= atCall[w].messagesSent
           /\ (stats.messagesSent - atCall[w].messagesSent)
                + (stats.messagesDropped - atCall[w].messagesDropped) <= MaxBatch

C8_Witness ==
    /\ pc[1] = "idle"
    /\ ret[1] = nil
    /\ stats.messagesDropped = atCall[1].messagesDropped + 1
    /\ stats.messagesSent = atCall[1].messagesSent + 1

\* C9: a serialized payload longer than a configured (> 0) maximum message size
\* is done with in the step that takes it up, with no offer made and the
\* dropped-message counter one higher; any other serialized payload is handed
\* to publishMessage with the counters as they were.
C9_SizeGuard ==
    [][\A w \in Writers : \A m \in Metrics :
          (WriteRange(w, m) /\ m.ok) =>
            IF cfg.MaxMessageSize > 0 /\ m.len > cfg.MaxMessageSize
            THEN /\ pc'[w] = "range"
                 /\ offered' = offered
                 /\ stats' = [stats EXCEPT !.messagesDropped = @ + 1]
            ELSE /\ pc'[w] = "for"
                 /\ data'[w] = m.len
                 /\ stats' = stats]_vars

C9_Witness ==
    /\ pc[1] = "range"
    /\ cfg.MaxMessageSize = 2
    /\ data[1] = 3
    /\ offers[1] = 0
    /\ stats.messagesDropped = before[1].messagesDropped + 1

\* The three counters of a payload's outcome, as a triple.
Tally(s) == <<s.messagesSent, s.messagesDropped, s.bytesTransferred>>

\* C10: while publishMessage is at work on a payload the three counters stand as
\* they stood when the payload was taken up, and the step that finishes a
\* serialized payload leaves exactly one of two records: sent + 1 and
\* bytes + len(data), or dropped + 1 and bytes as before.
C10_OneOutcomePerPayload ==
    [][\A w \in Writers :
          /\ pc'[w] \in {"for", "returned"} => Tally(stats') = Tally(before'[w])
          /\ (WriteRecord(w) \/ \E m \in Metrics : WriteRange(w, m) /\ m.ok /\ pc'[w] = "range")
             => LET b == before'[w]
                    sent == <<b.messagesSent + 1, b.messagesDropped,
                              b.bytesTransferred + data'[w]>>
                    dropped == <<b.messagesSent, b.messagesDropped + 1, b.bytesTransferred>>
                IN  /\ Tally(stats') \in {sent, dropped}
                    /\ Tally(stats') = sent <=> (pc[w] = "returned" /\ pubErr[w] = nil)]_vars

C10_Witness ==
    /\ pc[1] = "range"
    /\ data[1] = 3
    /\ offers[1] = 2
    /\ Tally(stats) = <<before[1].messagesSent + 1, before[1].messagesDropped,
                        before[1].bytesTransferred + 3>>

\* C11: no step of Connect, Write or Close lowers any of the six counters;
\* a later Connect registers them again and finds the values they had reached.
C11_CountersNeverDecrease ==
    [][\A f \in DOMAIN stats : stats'[f] >= stats[f]]_vars

\* A Connect has failed and been counted, and the Connect after it, which
\* registered the counters again, has succeeded with the count kept.
C11_Witness ==
    /\ connected
    /\ nConnects = 2
    /\ stats.connectionErrors = 1

\* C14: a Connect on a publisher whose channel is empty or whose stream id is
\* zero returns the configuration error, creates no transport context and
\* attempts no transport connection, and leaves the publisher not connected.
C14_ConfigErrorBeforeTransport ==
    [][\A connectOk \in BOOLEAN, addOk \in BOOLEAN, ready \in BOOLEAN :
          (Connect(connectOk, addOk, ready) /\ (cfg.Channel = "" \/ cfg.StreamID = 0))
             => /\ connectErr'.kind \in {"channel_required", "stream_id_required"}
                /\ nConnects' = nConnects
                /\ aeronContext' = aeronContext
                /\ aeronInstance' = aeronInstance
                /\ publication' = publication
                /\ stats' = stats
                /\ ~connected']_vars

\* Connect has been called with a channel and stream id 0 and has returned
\* the stream-id error.
C14_Witness ==
    /\ calls > 0
    /\ cfg.Channel # ""
    /\ cfg.StreamID = 0
    /\ connectErr.kind = "stream_id_required"
    /\ nConnects = 0
    /\ ~connected

\* C15: a Connect returns nil and leaves the publisher connected exactly when
\* the publication this call added reported connected in time, and the
\* publication in use is then that one; every other Connect returns an error
\* and leaves the publisher not connected.
C15_ConnectedOnlyByOwnPublication ==
    [][\A connectOk \in BOOLEAN, addOk \in BOOLEAN, ready \in BOOLEAN :
          Connect(connectOk, addOk, ready)
             => IF ConnectValidate(cfg') = nil /\ connectOk /\ addOk /\ ready
                THEN connectErr' = nil /\ connected' /\ publication' = nConnects'
                ELSE connectErr' # nil /\ ~connected']_vars

\* C12: with Write and Close called from different goroutines, every offer is
\* made while the publisher is connected, on a publication that is neither
\* cleared nor closed; Close tears down only while no Write call is in
\* progress; and a Write called when Close has taken effect returns the
\* not-connected error without entering its loop.
C12_NoOfferAfterClose ==
    [][/\ \A w \in Writers, result \in ConcResults :
             PublishAttempt(w, result)
                => connected /\ publication # 0 /\ publication \notin closedPub
       /\ CloseLocked => Quiescent
       /\ \A w \in Writers, n \in 0..MaxConcBatch :
             (WriteBegin(w, n) /\ ~connected)
                => ret'[w].kind = "not_connected" /\ pc'[w] = "idle"]_vars

\* Close is blocked in Lock while goroutine 1 is inside Write, between two
\* offers of one payload.
C12_Witness ==
    /\ closer = "lock"
    /\ pc[1] = "for"
    /\ offers[1] = 1
    /\ connected
    /\ publication # 0

\* C16: the publisher re-establishes a lost publication by itself: a Write
\* called after an offer has returned PublicationClosed or NotConnected makes
\* its offers on another publication than the one that was lost.
C16_ReconnectsAutomatically ==
    \A w \in Writers : offers[w] > 0 => publication \notin lostAtCall[w]

\* C13: Connect excludes Write: no Write call starts, and no Write call in
\* progress makes an offer, while a Connect call is between its first write to
\* the connection state and its return.
C13_ConnectExcludesWrite ==
    [][\A w \in Writers :
          \/ \E n \in 0..MaxConcBatch : WriteBegin(w, n)
          \/ \E result \in ConcResults : PublishAttempt(w, result)
          => connector = "idle"]_vars

\* The metrics of the messages Parse has decoded, in the order it returned them.
Decoded(h) ==
    LET RECURSIVE UpTo(_)
        UpTo(k) == IF k = 0 THEN <<>>
                   ELSE UpTo(k - 1) \o (IF h[k].ok THEN Events(k, h[k].n) ELSE <<>>)
    IN UpTo(Len(h))

\* Goroutine g is in its poll loop.
Looping(g) == g \in Goroutines /\ sub.loop[g] \in {"top", "poll", "idle"}

\* C17: the accumulator given to Start has received every metric of every
\* message decoded so far, once each and in the order Parse returned them.
C17_DeliveredOnceInOrder == sub.sinkLog = Decoded(sub.handled)

\* C18: whenever Stop has returned and no call has followed it, no consume
\* goroutine of the subscriber is still running.
C18_StopWaitsForLoop ==
    (sub.lastCall = "Stop" /\ sub.stopper = "idle")
       => \A g \in Goroutines : sub.loop[g] \in {"none", "exited"}

\* C19: the select at the top of an iteration returns when the context is
\* cancelled, so no poll starts after it; a cancelled loop exits and the Stop
\* that waits for it returns, unless a call in the loop has not returned.
C19_CancellationEndsLoop ==
    /\ [][\A g \in Goroutines :
             (ConsumeSelect(g) /\ g \in sub.ctxDone) => sub'.loop[g] = "exited"]_vars
    /\ \A g \in Goroutines :
          (g \in sub.ctxDone /\ Looping(g)) ~> (sub.loop[g] = "exited" \/ sub.crashed)
    /\ (sub.stopper = "wait" /\ Looping(sub.cancel))
          ~> (sub.stopper = "idle" \/ sub.crashed)

\* The loop has handled a message, Stop has cancelled it, it has exited and
\* Stop has returned.
C19_Witness ==
    /\ sub.lastCall = "Stop"
    /\ sub.stopper = "idle"
    /\ sub.loop[1] = "exited"
    /\ 1 \in sub.ctxDone
    /\ Len(sub.handled) > 0

\* C20: a message Parse fails on adds nothing to the accumulator and leaves
\* the goroutine in its loop, and a message decoded after such a failure has
\* its metrics added.
C20_DecodeFailureSkipsMessage ==
    [][\A g \in Goroutines, m \in Messages :
          PollFragment(g, m)
             => IF ~m.ok
                THEN sub'.sinkLog = sub.sinkLog /\ sub'.loop[g] = "poll" /\ ~sub'.crashed
                ELSE (\E i \in 1..Len(sub.handled) : ~sub.handled[i].ok)
                        => sub'.sinkLog = sub.sinkLog \o Events(Len(sub.handled) + 1, m.n)]_vars

\* The consume goroutines that have been started and have not returned.
Running == {g \in Goroutines : sub.loop[g] \in {"spawned", "top", "poll", "idle"}}

\* C21: a subscriber whose Init returned nil has one of the four strategy
\* names, and a consume goroutine returns only because its context was
\* cancelled, never because of the strategy name.
C21_StrategyCheckedAtInit ==
    /\ sub.initErr = "nil" => ValidStrategy(sub.cfg.IdleStrategy)
    /\ \A g \in Goroutines : sub.loop[g] = "exited" => g \in sub.ctxDone

\* C22: at any time at most one consume goroutine of the subscriber is running.
C22_OneLoopAtATime == Cardinality(Running) <= 1

C24_StopClosesTransport ==
    (sub.lastCall = "Stop" /\ sub.stopper = "idle")
       => /\ \A id \in 1..sub.nClients : id \in sub.closedClients
          /\ sub.subscription = 0

\* The three handles of the collector are nil together or name one open mapping.
HandlesUnset == stat.reader = 0 /\ stat.counterFile = 0 /\ stat.cncFile = 0

HandlesSet ==
    /\ stat.reader # 0 /\ stat.counterFile = stat.reader /\ stat.cncFile = stat.reader
    /\ stat.reader \in stat.mapped \ stat.closedFiles

\* The measurements of per-counter records, with the type ids of each, and
\* the fallback.
Ranges ==
    [aeron_bytes |-> 1..2, aeron_messages |-> 4..10, aeron_flow_control |-> 11..20,
     aeron_positions |-> 21..26, aeron_streams |-> 27..33, aeron_clients |-> 34..35,
     aeron_system |-> {0}]

Fallback == "aeron_counter"

\* A kind name of the form unknown_<typeId>.
IsUnknownKind(kind, typeId) ==
    /\ Len(kind) > 8 /\ Slice(kind, 0, 8) = "unknown_"
    /\ ParseInt(Slice(kind, 8, Len(kind))) = [err |-> FALSE, value |-> typeId]

\* The kind names the unit test expects (TestAeronStat_ParseCounterType).
ExpectedKinds ==
    (0 :> "system_counter") @@ (1 :> "bytes_sent") @@ (2 :> "bytes_received")
       @@ (4 :> "nak_messages_sent") @@ (14 :> "errors")

\* C25: a Gather that succeeds over a source of N counters emits N per-counter
\* records, one per counter in scan order, and then exactly one record
\* aeron_stat_summary with total_counters = N, also when N = 0.
C25_RecordsThenSummary ==
    (stat.lastCall = "Gather" /\ stat.lastErr = "nil")
       => LET N == Len(stat.scanned)
          IN  /\ Len(stat.emitted) = N + 1
              /\ \A i \in 1..N :
                    /\ stat.emitted[i].measurement \in DOMAIN Ranges \cup {Fallback}
                    /\ stat.emitted[i].fields["value"] = stat.scanned[i].Value
                    /\ stat.emitted[i].tags["type_id"] = Sprintf_d(stat.scanned[i].TypeId)
              /\ stat.emitted[N + 1].measurement = "aeron_stat_summary"
              /\ stat.emitted[N + 1].fields = ("total_counters" :> N)

C25_Witness ==
    /\ stat.lastCall = "Gather" /\ stat.lastErr = "nil"
    /\ stat.scanned = <<>> /\ Len(stat.emitted) = 1

\* C26: a Gather that has to open the source and cannot returns the mapping
\* error and emits no record; no Gather that returns an error has emitted one.
C26_UnavailableEmitsNothing ==
    stat.lastCall = "Gather"
       => /\ (stat.nMaps > 0 /\ stat.nMaps \notin stat.mapped)
                => stat.lastErr = "failed to map CnC file"
          /\ stat.lastErr # "nil" => stat.emitted = <<>> /\ stat.scanned = <<>>

C26_Witness ==
    /\ stat.lastCall = "Gather" /\ stat.lastErr = "failed to map CnC file"
    /\ stat.nMaps = 2 /\ stat.mapped = {1} /\ stat.emitted = <<>>

\* C27: after every operation the reader, the counter file and the mapped
\* file are all set or all unset; after a failed Start or Gather they are all
\* unset, and the Gather that follows calls MapFile anew and, if that
\* succeeds, works on the new mapping.
C27_NoPartialSourceState ==
    /\ [](/\ HandlesSet \/ HandlesUnset
          /\ (stat.lastCall \in {"Start", "Gather"} /\ stat.lastErr # "nil") => HandlesUnset)
    /\ [][(stat.lastErr # "nil" /\ stat'.calls = stat.calls + 1 /\ stat'.lastCall = "Gather")
             => /\ stat'.nMaps = stat.nMaps + 1
                /\ stat'.nMaps \in stat'.mapped
                      => stat'.reader = stat'.nMaps /\ stat'.lastErr = "nil"]_vars

C27_Witness ==
    /\ stat.lastCall = "Gather" /\ stat.lastErr = "nil"
    /\ stat.nMaps = 2 /\ stat.mapped = {2} /\ stat.reader = 2

\* C28: parseCounterType returns a non-empty name for every type id: a known
\* kind name for 0..35 (the expected one where the unit test names it) and
\* unknown_<typeId> for every other type id, negative ones included.
C28_ParseCounterTypeTotal ==
    probe.applied
       => /\ Len(probe.kind) > 0
          /\ probe.typeId \in DOMAIN ExpectedKinds => probe.kind = ExpectedKinds[probe.typeId]
          /\ probe.typeId \in 0..35 => ~IsUnknownKind(probe.kind, probe.typeId)
          /\ probe.typeId \notin 0..35 => IsUnknownKind(probe.kind, probe.typeId)

C28_Witness == probe.applied /\ probe.typeId = -3 /\ probe.kind = "unknown_-3"

\* C29: getMeasurementName returns the measurement whose range holds the type
\* id, and the fallback when no range does, whatever the kind string is.
C29_MeasurementByRange ==
    probe.applied
       => /\ probe.measurement \in DOMAIN Ranges \cup {Fallback}
          /\ \A b \in DOMAIN Ranges : probe.measurement = b <=> probe.typeId \in Ranges[b]
          /\ probe.measurement = Fallback
                <=> \A b \in DOMAIN Ranges : probe.typeId \notin Ranges[b]

C29_Witness ==
    /\ probe.applied /\ probe.typeId = 1 /\ probe.counterType = "unknown_999"
    /\ probe.measurement = "aeron_bytes"

\* C30: a record is emitted under the fallback measurement aeron_counter only
\* for a counter whose kind is unknown_<typeId>.
C30_FallbackOnlyForUnknown ==
    \A i \in 1..Len(stat.scanned) :
       stat.emitted[i].measurement = Fallback
          => IsUnknownKind(parseCounterType(stat.scanned[i].TypeId), stat.scanned[i].TypeId)

\* substr stands in s at offset i, and nowhere before.
OccursAt(s, substr, i) ==
    /\ 0 <= i /\ i + Len(substr) <= Len(s)
    /\ SubSeq(s, i + 1, i + Len(substr)) = substr

FirstAt(s, substr, i) ==
    OccursAt(s, substr, i) /\ \A j \in 0..(i - 1) : ~OccursAt(s, substr, j)

Occurs(s, substr) == \E i \in 0..Len(s) : OccursAt(s, substr, i)

\* t is the text of s from offset i up to the next stop character, or to the
\* end of s if none follows.
RunFrom(s, i, stop, t) ==
    /\ OccursAt(s, t, i)
    /\ ~Occurs(t, stop)
    /\ i + Len(t) = Len(s) \/ OccursAt(s, stop, i + Len(t))

\* t is the decimal text of the integer v: an optional sign, then digits.
RECURSIVE AllZeros(_)
AllZeros(t) == t = "" \/ (SubSeq(t, 1, 1) = "0" /\ AllZeros(SubSeq(t, 2, Len(t))))

IsDecimalOf(t, v) ==
    \E sign \in {"", "+", "-"} :
       /\ OccursAt(t, sign, 0)
       /\ sign = "-" <=> (v < 0 \/ (v = 0 /\ OccursAt(t, "-", 0)))
       /\ LET body == SubSeq(t, Len(sign) + 1, Len(t))
              digits == Decimal(IF v < 0 THEN -v ELSE v)
          IN  /\ Len(body) >= Len(digits)
              /\ SubSeq(body, Len(body) - Len(digits) + 1, Len(body)) = digits
              /\ AllZeros(SubSeq(body, 1, Len(body) - Len(digits)))

IsDecimal(t) ==
    \E sign \in {"", "+", "-"} :
       /\ OccursAt(t, sign, 0)
       /\ Len(t) > Len(sign)
       /\ \A i \in (Len(sign) + 1)..Len(t) :
             SubSeq(t, i, i) \in {"0", "1", "2", "3", "4", "5", "6", "7", "8", "9"}

\* The field parsed from the text after the first marker: there if and only
\* if the label has the marker and the text up to the next space is an
\* integer, and then it is that integer.
IntFieldRight(label, fields, marker, field) ==
    /\ field \in DOMAIN fields
          <=> \E i \in 0..Len(label), k \in 0..Len(label) :
                 /\ FirstAt(label, marker, i)
                 /\ i + Len(marker) + k <= Len(label)
                 /\ RunFrom(label, i + Len(marker), " ",
                            SubSeq(label, i + Len(marker) + 1, i + Len(marker) + k))
                 /\ IsDecimal(SubSeq(label, i + Len(marker) + 1, i + Len(marker) + k))
    /\ field \in DOMAIN fields
          => \E i \in 0..Len(label), k \in 0..Len(label) :
                /\ FirstAt(label, marker, i)
                /\ i + Len(marker) + k <= Len(label)
                /\ RunFrom(label, i + Len(marker), " ",
                           SubSeq(label, i + Len(marker) + 1, i + Len(marker) + k))
                /\ IsDecimalOf(SubSeq(label, i + Len(marker) + 1, i + Len(marker) + k),
                               fields[field])

\* C31: parseCounterLabel returns for every label, also an empty or truncated
\* one, without a panic, and the field label of its result is the label it
\* was given.
C31_LabelParsingNeverRaises ==
    probe.applied
       => /\ ~probe.parsed.panics
          /\ "label" \in DOMAIN probe.parsed.fields
          /\ probe.parsed.fields["label"] = probe.label

C31_Witness ==
    /\ probe.applied /\ probe.label = "aeron:endpoint="
    /\ probe.parsed.tags = [channel |-> "aeron:endpoint=", endpoint |-> ""]

\* C32: the tag channel is there exactly when the label contains "aeron:" and
\* is the text from the first "aeron:" up to the next space or the end; the
\* tag endpoint is there exactly when that text contains "endpoint=" and is the
\* text after the first "endpoint=" up to the next "&" or the end of the
\* channel; what stands before "aeron:" changes neither tag.
C32_ChannelAndEndpoint ==
    probe.applied
       => LET tags == probe.parsed.tags
              label == probe.label
          IN  /\ DOMAIN tags \subseteq {"channel", "endpoint"}
              /\ "channel" \in DOMAIN tags <=> Occurs(label, "aeron:")
              /\ "channel" \in DOMAIN tags
                    => \E i \in 0..Len(label) :
                          /\ FirstAt(label, "aeron:", i)
                          /\ RunFrom(label, i, " ", tags["channel"])
                          /\ parseCounterLabel(SubSeq(label, i + 1, Len(label))).tags = tags
              /\ "endpoint" \in DOMAIN tags
                    <=> "channel" \in DOMAIN tags /\ Occurs(tags["channel"], "endpoint=")
              /\ "endpoint" \in DOMAIN tags
                    => \E i \in 0..Len(tags["channel"]) :
                          /\ FirstAt(tags["channel"], "endpoint=", i)
                          /\ RunFrom(tags["channel"], i + 9, "&", tags["endpoint"])

C32_Witness ==
    /\ probe.applied
    /\ probe.label = "Publication: aeron:udp?endpoint=localhost:40123 stream-id=10"
    /\ probe.parsed.tags = [channel |-> "aeron:udp?endpoint=localhost:40123",
                            endpoint |-> "localhost:40123"]

\* C33: the fields stream_id and session_id are the integers parsed from the
\* text after the first "stream-id=" and the first "session-id=" of the whole
\* label, up to the next space or the end; a field is left out when its marker
\* is absent or the text is not an integer.
C33_StreamAndSessionId ==
    probe.applied
       => /\ DOMAIN probe.parsed.fields \subseteq {"label", "stream_id", "session_id"}
          /\ IntFieldRight(probe.label, probe.parsed.fields, "stream-id=", "stream_id")
          /\ IntFieldRight(probe.label, probe.parsed.fields, "session-id=", "session_id")

C33_Witness ==
    /\ probe.applied
    /\ probe.label = "snd-pos: 7 session-id=-12 stream-id=+007 aeron:udp?endpoint=h:1&ttl=4 x"
    /\ probe.parsed.fields["stream_id"] = 7 /\ probe.parsed.fields["session_id"] = -12
    /\ probe.parsed.tags["endpoint"] = "h:1"

\* C34: a publish call that has returned has made at least one and at most
\* MaxRetries + 1 offers; in every call the sleeps are one before each offer
\* but the first, the first of them the configured retry delay and each later
\* one the delay before it multiplied and clamped.
C34_OfferThenSleepSchedule ==
    \A w \in Writers :
       /\ pc[w] = "returned" => offers[w] >= 1 /\ offers[w] <= cfg.MaxRetries + 1
       /\ pc[w] \in {"for", "returned"}
             => /\ Len(sleeps[w]) = (IF offers[w] = 0 THEN 0 ELSE offers[w] - 1)
                /\ Len(sleeps[w]) > 0 => sleeps[w][1] = cfg.RetryDelay
                /\ \A i \in 1..(Len(sleeps[w]) - 1) : sleeps[w][i + 1] = NextDelay(sleeps[w][i])

\* C35: an iteration of the poll loop that finds its context not cancelled
\* polls once, reading at most FragmentLimit fragments, then calls Idle once
\* with the number of fragments that poll has read, and only then is back at
\* the select; the loop is left at the select alone, when the context is
\* cancelled.
C35_PollThenIdleOnce ==
    [][\A g \in Goroutines :
          /\ (sub.loop[g] = "top" /\ sub'.loop[g] # "top")
                => IF g \in sub.ctxDone THEN sub'.loop[g] = "exited"
                   ELSE sub'.loop[g] = "poll" /\ sub'.fragmentsRead[g] = 0
          /\ sub.loop[g] = "poll"
                => /\ sub'.loop[g] \in {"poll", "idle"}
                   /\ sub'.fragmentsRead[g] <= sub.cfg.FragmentLimit
                   /\ sub'.loop[g] = "idle" => sub'.fragmentsRead[g] = sub.fragmentsRead[g]
          /\ sub.loop[g] = "idle"
                => \/ sub'.loop[g] = "idle" /\ sub'.fragmentsRead[g] = sub.fragmentsRead[g]
                   \/ sub'.loop[g] = "top" /\ sub'.idleArg[g] = sub.fragmentsRead[g]]_vars

C35_Witness ==
    /\ sub.loop[1] = "top" /\ sub.idleArg[1] = 1 /\ sub.fragmentsRead[1] = 1
    /\ sub.cfg.FragmentLimit = 1 /\ Len(sub.handled) = 1 /\ 1 \notin sub.ctxDone

\* C37: Close returns nil; on a publisher that is not connected it changes
\* nothing; on a connected one it leaves connected false and the publication,
\* the client and the context nil, so that another Close would change nothing
\* and a Write would return the not-connected error.
C37_CloseClearsOrDoesNothing ==
    [][Close
          => /\ CloseReturn = nil
             /\ ~connected
                   => UNCHANGED <<cfg, serializer, connected, aeronContext, aeronInstance,
                                  publication, mutex, stats, closedPub, closedInst>>
             /\ connected
                   => /\ ~connected' /\ publication' = 0 /\ aeronInstance' = 0
                      /\ ~aeronContext'
                      /\ publication \in closedPub' /\ aeronInstance \in closedInst'
                      /\ WritePrecondition' = Error("not_connected", 0, NoCause)
                      /\ mutex' = mutex]_vars

C37_Witness ==
    /\ calls = 2 /\ ~connected /\ publication = 0 /\ aeronInstance = 0 /\ ~aeronContext
    /\ closedPub = {1} /\ closedInst = {1}

\* C38: Stop never panics; on a subscriber none of whose Start calls has
\* started a loop it returns at once; and a Stop called when the last call
\* that returned was a Stop finds nothing to wait for.
C38_StopWithoutLoopReturns ==
    [][Stop
          => /\ ~sub'.crashed
             /\ sub.nLoops = 0 => sub'.stopper = "idle" /\ sub'.lastCall = "Stop"
             /\ sub.lastCall = "Stop"
                   => sub'.stopper = "idle" \/ sub'.wgCount[sub'.wg] = 0]_vars

C38_Witness ==
    /\ sub.stops = 2 /\ sub.starts = 1 /\ sub.startErr = "connect_failed"
    /\ sub.nLoops = 0 /\ sub.lastCall = "Stop" /\ sub.stopper = "idle"

\* The mappings MapFile has returned that are not closed.
OpenFiles == stat.mapped \ stat.closedFiles

\* C39: at most one mapped counter file is open at any time, the one the
\* collector holds; none is open after Stop.
C39_AtMostOneMappingOpen ==
    /\ Cardinality(OpenFiles) <= 1
    /\ OpenFiles = (IF stat.cncFile # 0 THEN {stat.cncFile} ELSE {})
    /\ stat.lastCall = "Stop" => OpenFiles = {}

C39_Witness ==
    /\ stat.nMaps = 2 /\ stat.mapped = {1, 2} /\ stat.closedFiles = {1} /\ stat.cncFile = 2

\* C36: in the record of every counter the field value is the counter's
\* value, the tags counter_id and type_id are the counter's id and type id in
\* decimal, the tags parsed from the label are as parsed, and a configured tag
\* is kept only under a key none of these uses; the summary record has the
\* configured tags and no other.
C36_RecordFieldsAndTags ==
    (stat.lastCall = "Gather" /\ stat.lastErr = "nil")
       => /\ \A i \in 1..Len(stat.scanned) :
                LET record == stat.emitted[i]
                    counter == stat.scanned[i]
                    parsed == parseCounterLabel(counter.Label)
                IN  /\ record.fields["value"] = counter.Value
                    /\ IsDecimalOf(record.tags["counter_id"], counter.Id)
                    /\ IsDecimalOf(record.tags["type_id"], counter.TypeId)
                    /\ \A k \in DOMAIN parsed.tags : record.tags[k] = parsed.tags[k]
                    /\ \A k \in DOMAIN stat.Tags :
                          k \notin DOMAIN parsed.tags \cup {"counter_id", "type_id", "counter_type"}
                             => record.tags[k] = stat.Tags[k]
          /\ stat.emitted[Len(stat.scanned) + 1].tags = stat.Tags

C36_Witness ==
    /\ stat.lastCall = "Gather" /\ stat.lastErr = "nil" /\ Len(stat.scanned) = 1
    /\ stat.Tags = [counter_id |-> "9", channel |-> "static"]
    /\ stat.emitted[1].tags["counter_id"] = "0"
    /\ stat.emitted[1].tags["channel"] = "aeron:udp?endpoint=h:1"
    /\ stat.emitted[2].tags = stat.Tags

\* C40: a Close that is waiting for the lock returns, provided the transport
\* answers the offers of the Writes in progress (the runs of the model end
\* with the MaxOffers-th answer); while it waits no Write call begins, and no
\* payload is offered more than MaxRetries + 1 times.
C40_CloseReturns ==
    /\ closer = "lock" ~> (closer = "idle" \/ offered = MaxOffers)
    /\ [](\A w \in Writers : offers[w] <= cfg.MaxRetries + 1)
    /\ [][closer = "lock" => \A w \in Writers : pc[w] = "idle" => pc'[w] = "idle"]_vars

C40_Witness ==
    /\ closer = "lock"
    /\ mutex.writer
    /\ \E w \in Writers : /\ w \in mutex.readers
                          /\ offers[w] = cfg.MaxRetries + 1
                          /\ lastResult[w] = BackPressured
                          /\ pc[w] = "for"

====
